---- MODULE Spec2Model ----
(***************************************************************************)
(* FNote frontend: the State Store (state.js, kept in src/playlist.js from *)
(* line 1195), the playlist handlers that run optimistic transactions      *)
(* (src/playlist.js) and the Remote Call Gateway (api.js, kept in          *)
(* src/unnamed/part_004).                                                  *)
(*                                                                         *)
(* One action is one synchronous run of a handler or of an async           *)
(* function's continuation: JavaScript runs it to its next await without   *)
(* interleaving.  Songs are identified with their paths; the song cache is *)
(* the set of hydrated paths; a playlist map is a function whose domain is *)
(* the set of playlist names.                                              *)
(***************************************************************************)
EXTENDS Integers, Sequences, FiniteSets, TLC

\* ------------------------------------------------------------------ bounds
MaxTx == 1          \* transactions the model follows to their completion
MaxCalls == 1       \* gateway calls made outside transactions
MaxConfirms == 1    \* confirmation dialogs waiting for an answer
TickMs == 15000     \* granularity of the clock, in ms
MaxWaitMs == 30000  \* longest time the model lets a call stay pending

\* ------------------------------------------------------- program constants
API_TIMEOUT_MS == 15000

Names == {"Default", "Work", "Focus"}
Paths == {"a", "b", "c"}
NoPath == "null"

\* --------------------------------------------------------------- helpers
Without(f, k) == [x \in DOMAIN f \ {k} |-> f[x]]
With(f, k, v) == [x \in DOMAIN f \cup {k} |-> IF x = k THEN v ELSE f[x]]
Range(s) == {s[i] : i \in DOMAIN s}
Keep(s, S) == SelectSeq(s, LAMBDA x : x \in S)
Drop(s, S) == SelectSeq(s, LAMBDA x : x \notin S)
IndexOf(s, x) == IF x \in Range(s) THEN CHOOSE i \in DOMAIN s : s[i] = x /\ \A j \in 1..(i - 1) : s[j] # x ELSE 0
Min(a, b) == IF a < b THEN a ELSE b
Max(a, b) == IF a > b THEN a ELSE b

VARIABLES
    state,        \* the State Store's `state` object
    audioSrc,     \* the audio element's loaded source (a path, or "")
    isUpdating,   \* the transaction lock
    txs,          \* performOptimisticUpdate calls suspended at `await apiCall()`
    ext,          \* a gateway call made by a non-transactional handler
    backend,      \* the backend's playlist data
    late,         \* backend calls abandoned by the gateway timeout, still running
    confirms,     \* showConfirmation promises waiting for the user's answer
    ready,        \* continuations of confirmed dialogs, queued as microtasks
    toast,        \* the toast shown by the last step ("" is none)
    last,         \* what the transaction completed by the last step did
    txCount, extCount,
    bus,          \* the pub/sub registry `subscribers` and what the last setter call did
    vl,           \* the virtual list: vList, its fetch sets and its timers
    view,         \* the search controls and the visibility of the main views
    sch,          \* the render scheduler of main.js
    player,       \* player.js: markers, queue consumption, auto-pause
    app           \* main.js: startApp and the splash screen

vars == <<state, audioSrc, isUpdating, txs, ext, backend, late, confirms, ready,
          toast, last, txCount, extCount, bus, vl, view, sch, player, app>>

\* The parts of the program a specification leaves out stay as they are.
Off == [on |-> FALSE]
others == <<bus, vl, view, sch, player, app>>

\* ------------------------------------------------------------ State Store
getActivePlaylist(s) ==
    LET md == s.musicData
    IN  IF md.activePlaylist \in DOMAIN md.playlists THEN md.playlists[md.activePlaylist] ELSE <<>>

setActivePlaylist(s, v) == [s EXCEPT !.musicData.activePlaylist = v]
setPlaylistOrder(s, v) == [s EXCEPT !.musicData.playlistOrder = v]
setPlaylists(s, v) == [s EXCEPT !.musicData.playlists = v]
setPlayQueue(s, v) == [s EXCEPT !.playQueue = v]
setCurrentSongIndex(s, v) == [s EXCEPT !.currentSongIndex = v]
setSelectedSongPaths(s, v) == [s EXCEPT !.selectedSongPaths = v]
setLastClickedPath(s, v) == [s EXCEPT !.lastClickedPath = v]
setViewMode(s, v) == [s EXCEPT !.viewMode = v]
addSongsToCacheDropped(s, S) == s
addSongsToCache(s, S) == [s EXCEPT !.musicData.songs = @ \cup S]

\* setMusicData merges data.songs into the cache and replaces the other fields.
setMusicData(s, data) ==
    [s EXCEPT !.musicData = [songs |-> @.songs \cup data.songs,
                             playlists |-> data.playlists,
                             playlistOrder |-> data.playlistOrder,
                             activePlaylist |-> data.activePlaylist]]

\* ---------------------------------------------------------------- gateway
\* The backend method each exported wrapper of api.js passes to callApi.
ApiMethod ==
    [ importFromFiles |-> "import_from_files",
      finalizeFileImport |-> "finalize_file_import",
      changeSongCover |-> "change_song_cover",
      exportPlaylist |-> "export_playlist",
      exportPlaylistAsM3U |-> "export_playlist_as_m3u",
      importPlaylist |-> "import_playlist",
      updateYtDlp |-> "update_yt_dlp",
      broadcastStateChange |-> "broadcast_state_change",
      addSongsToPlaylist |-> "add_songs_to_playlist",
      deleteSongs |-> "delete_songs",
      deletePlaylist |-> "delete_playlist",
      renamePlaylist |-> "rename_playlist",
      reorderPlaylists |-> "reorder_playlists",
      reorderPlaylistSongs |-> "reorder_playlist_songs",
      moveSongsToPlaylist |-> "move_songs_to_playlist",
      saveActivePlaylist |-> "save_active_playlist" ]

NO_TIMEOUT_METHODS ==
    { "importFromFiles", "finalizeFileImport", "changeSongCover", "exportPlaylist",
      "exportPlaylistAsM3U", "importPlaylist", "updateYtDlp", "broadcast_state_change" }

\* callApi: useTimeout = !NO_TIMEOUT_METHODS.includes(apiMethod.name), where
\* apiMethod is pywebview.api.<method>.
useTimeoutNever(fn) == FALSE
useTimeout(fn) == ApiMethod[fn] \notin NO_TIMEOUT_METHODS

\* What callApi hands its caller for each way the race can settle.
\*   "ok"      the backend resolved with a payload that is not error-tagged
\*   "error"   the backend resolved with {status: 'error', message}
\*   "reject"  the backend call rejected (transport or unexpected exception)
\*   "timeout" the timeout promise won the race
TimedOut == "The operation timed out."
callApi(how) ==
    CASE how = "ok" -> [kind |-> "returned", message |-> ""]
      [] how = "error" -> [kind |-> "thrown", message |-> "backend message"]
      [] how = "reject" -> [kind |-> "thrown", message |-> "rejection reason"]
      [] how = "timeout" -> [kind |-> "thrown", message |-> TimedOut]

\* ---------------------------------------------------------------- backend
\* A remote call: the api.js wrapper and its arguments.
Op(fn, name, name2, paths, order) ==
    [fn |-> fn, name |-> name, name2 |-> name2, paths |-> paths, order |-> order]

\* The backend is outside the repository; it is modelled as performing the
\* operation its method is named after on its own copy of the playlist data.
BackendAccepts(op, b) ==
    CASE op.fn = "addSongsToPlaylist" -> op.name \in DOMAIN b.playlists
      [] op.fn = "renamePlaylist" -> op.name \in DOMAIN b.playlists /\ op.name2 \notin DOMAIN b.playlists
      [] op.fn = "deletePlaylist" -> op.name \in DOMAIN b.playlists
      [] op.fn = "saveActivePlaylist" -> op.name \in DOMAIN b.playlists
      [] op.fn = "reorderPlaylistSongs" -> op.name \in DOMAIN b.playlists
      [] op.fn = "moveSongsToPlaylist" -> {op.name, op.name2} \subseteq DOMAIN b.playlists
      [] OTHER -> TRUE

BackendApply(op, b) ==
    CASE op.fn = "addSongsToPlaylist" ->
            [b EXCEPT !.playlists[op.name] = @ \o Drop(op.paths, Range(@))]
      [] op.fn = "renamePlaylist" ->
            [b EXCEPT !.playlists = With(Without(@, op.name), op.name2, @[op.name]),
                      !.playlistOrder = [i \in DOMAIN @ |-> IF @[i] = op.name THEN op.name2 ELSE @[i]],
                      !.activePlaylist = IF @ = op.name THEN op.name2 ELSE @]
      [] op.fn = "deletePlaylist" ->
            [b EXCEPT !.playlists = Without(@, op.name),
                      !.playlistOrder = Drop(@, {op.name})]
      [] op.fn = "saveActivePlaylist" ->
            [b EXCEPT !.activePlaylist = op.name]
      [] op.fn = "deleteSongs" ->
            [b EXCEPT !.playlists = [n \in DOMAIN @ |-> Drop(@[n], Range(op.paths))]]
      [] op.fn = "reorderPlaylistSongs" ->
            [b EXCEPT !.playlists[op.name] = op.order]
      [] op.fn = "moveSongsToPlaylist" ->
            [b EXCEPT !.playlists =
                With(With(@, op.name, Drop(@[op.name], Range(op.paths))),
                     op.name2, @[op.name2] \o Drop(op.paths, Range(@[op.name2])))]
      [] op.fn = "reorderPlaylists" ->
            [b EXCEPT !.playlistOrder = op.order,
                      !.playlists = [n \in DOMAIN @ \cup Range(op.order) |->
                                        IF n \in DOMAIN @ THEN @[n] ELSE <<>>]]
      [] OTHER -> b

\* ------------------------------------------ optimistic actions and undos
\* The values an undo closure captured.  Every closure is given the same
\* record shape; a field a closure does not capture is left at its default.
Undo(kind, playlists, order, active, queue, index, deleted, wasPlaying, name) ==
    [kind |-> kind, playlists |-> playlists, order |-> order, active |-> active,
     queue |-> queue, index |-> index, deleted |-> deleted,
     wasPlaying |-> wasPlaying, name |-> name]

\* addSongsToActivePlaylist
songsToAddToPlaylist(s, songObjects) == Drop(songObjects, Range(getActivePlaylist(s)))
AddSongsAction(s, toAdd) ==
    LET md == s.musicData
        name == md.activePlaylist
    IN  setPlaylists(addSongsToCache(s, md.songs \cup Range(toAdd)),
                     With(md.playlists, name, getActivePlaylist(s) \o toAdd))
AddSongsUndo(s) ==
    Undo("addSongs", s.musicData.playlists, <<>>, "", <<>>, -1, {}, FALSE, "")

\* renamePlaylist / finalize
RenameAction(s, oldName, newName) ==
    LET md == s.musicData
        optimisticPlaylists == With(Without(md.playlists, oldName), newName, md.playlists[oldName])
        optimisticOrder == [i \in DOMAIN md.playlistOrder |->
                              IF md.playlistOrder[i] = oldName THEN newName ELSE md.playlistOrder[i]]
        optimisticActivePlaylist == IF md.activePlaylist = oldName THEN newName ELSE md.activePlaylist
    IN  setPlaylists(setPlaylistOrder(setActivePlaylist(s, optimisticActivePlaylist),
                                      optimisticOrder), optimisticPlaylists)
RenameUndo(s) ==
    Undo("rename", s.musicData.playlists, s.musicData.playlistOrder,
         s.musicData.activePlaylist, <<>>, -1, {}, FALSE, "")

\* deletePlaylist
DeletePlaylistAction(s, name, wasPlaying) ==
    LET md == s.musicData
        reset == IF wasPlaying
                 THEN setPlayQueue(setLastClickedPath(setSelectedSongPaths(
                        setCurrentSongIndex(setViewMode(setActivePlaylist(s, "Default"),
                        "playlist"), -1), <<>>), NoPath), <<>>)
                 ELSE s
    IN  setPlaylists(setPlaylistOrder(reset, Drop(md.playlistOrder, {name})),
                     Without(md.playlists, name))
DeletePlaylistUndo(s, name, wasPlaying) ==
    Undo("deletePlaylist", s.musicData.playlists, s.musicData.playlistOrder,
         s.musicData.activePlaylist, s.playQueue, s.currentSongIndex, {}, wasPlaying, name)

\* deleteSelectedSongs
playingSong(s) ==
    LET ap == getActivePlaylist(s)
    IN  IF s.currentSongIndex + 1 \in DOMAIN ap THEN ap[s.currentSongIndex + 1] ELSE NoPath
DeleteSongsAction(s, sel, wasPlayingSongDeleted) ==
    LET md == s.musicData
        newSongsMap == md.songs \ Range(sel)
        newPlaylistsMap == [n \in DOMAIN md.playlists |-> Drop(md.playlists[n], Range(sel))]
        s1 == setMusicData(s, [md EXCEPT !.songs = newSongsMap, !.playlists = newPlaylistsMap])
        optimisticCurrentSongIndex ==
            IF wasPlayingSongDeleted THEN -1
            ELSE IF playingSong(s) # NoPath
                 THEN IndexOf(newPlaylistsMap[md.activePlaylist], playingSong(s)) - 1
                 ELSE s.currentSongIndex
    IN  setLastClickedPath(setSelectedSongPaths(setCurrentSongIndex(
            setPlayQueue(s1, Drop(s.playQueue, Range(sel))),
            optimisticCurrentSongIndex), <<>>), NoPath)
DeleteSongsUndo(s, sel) ==
    Undo("deleteSongs", s.musicData.playlists, <<>>, "", s.playQueue, s.currentSongIndex,
         Range(sel) \cap s.musicData.songs, FALSE, "")

\* handleSongReorderDrop: where the dragged block lands.
Splice(rem, at, block) == SubSeq(rem, 1, at) \o block \o SubSeq(rem, at + 1, Len(rem))
ReorderedPaths(original, sel, rawTarget) ==
    LET targetIndex == Max(0, Min(rawTarget, Len(original)))
        songsToMove == Keep(original, Range(sel))
        remaining == Drop(original, Range(sel))
        movedItemsBeforeTarget == Len(Keep(SubSeq(original, 1, targetIndex), Range(sel)))
    IN  Splice(remaining, targetIndex - movedItemsBeforeTarget, songsToMove)
ReorderSongsAction(s, name, newOrderedPaths) ==
    setPlaylists(s, With(s.musicData.playlists, name, newOrderedPaths))
ReorderSongsUndo(s, name) ==
    Undo("reorderSongs", With(<<>>, name, s.musicData.playlists[name]), <<>>, "", <<>>, -1,
         {}, FALSE, name)

\* drop of the selected songs on another playlist
MoveSongsAction(s, source, target, sel) ==
    LET md == s.musicData
        sourcePaths == md.playlists[source]
        targetPaths == md.playlists[target]
        m1 == With(md.playlists, source, Drop(sourcePaths, Range(sel)))
        newPlaylistsMap == With(m1, target, targetPaths \o Drop(sel, Range(targetPaths)))
    IN  setSelectedSongPaths(setPlayQueue(
            setMusicData(s, [md EXCEPT !.playlists = newPlaylistsMap]),
            Drop(s.playQueue, Range(sel))), <<>>)
MoveSongsUndo(s) ==
    Undo("moveSongs", s.musicData.playlists, <<>>, "", s.playQueue, -1, {}, FALSE, "")

\* createNewPlaylist
CreateAction(s, newName) ==
    setPlaylistOrder(setPlaylists(s, With(s.musicData.playlists, newName, <<>>)),
                     Append(s.musicData.playlistOrder, newName))
CreateUndo(s) ==
    Undo("create", s.musicData.playlists, s.musicData.playlistOrder, "", <<>>, -1, {}, FALSE, "")

\* drop of a playlist item on the playlist list
ReorderedPlaylists(order, sourceName, targetName) ==
    LET rest == Drop(order, {sourceName})
        targetIndex == IF targetName \in Range(rest) THEN IndexOf(rest, targetName) - 1 ELSE Len(rest)
    IN  Splice(rest, targetIndex, <<sourceName>>)
ReorderPlaylistsAction(s, optimisticOrder) == setPlaylistOrder(s, optimisticOrder)
ReorderPlaylistsUndo(s) ==
    Undo("reorderPlaylists", <<>>, s.musicData.playlistOrder, "", <<>>, -1, {}, FALSE, "")

\* What each undo closure does to the store when it is called.
UndoApply(u, s) ==
    CASE u.kind = "addSongs" -> setPlaylists(s, u.playlists)
      [] u.kind = "rename" ->
            setPlaylists(setPlaylistOrder(setActivePlaylist(s, u.active), u.order), u.playlists)
      [] u.kind = "deletePlaylist" ->
            LET s1 == setPlayQueue(setActivePlaylist(setPlaylistOrder(
                        setPlaylists(s, u.playlists), u.order), u.active), u.queue)
            IN  IF u.wasPlaying THEN setCurrentSongIndex(s1, u.index) ELSE s1
      [] u.kind = "deleteSongs" ->
            setCurrentSongIndex(setPlayQueue(
                setMusicData(s, [s.musicData EXCEPT !.songs = @ \cup u.deleted,
                                                    !.playlists = u.playlists]),
                u.queue), u.index)
      [] u.kind = "reorderSongs" ->
            setPlaylists(s, With(s.musicData.playlists, u.name, u.playlists[u.name]))
      [] u.kind = "moveSongs" ->
            setPlayQueue(setMusicData(s, [s.musicData EXCEPT !.playlists = u.playlists]), u.queue)
      [] u.kind = "create" -> setPlaylistOrder(setPlaylists(s, u.playlists), u.order)
      [] u.kind = "reorderPlaylists" -> setPlaylistOrder(s, u.order)
      [] OTHER -> s

\* ------------------------------------------------------------------- Init
\* The store after startApp has loaded the library from the backend
\* (setMusicData(initialData.musicData)); a song may have been loaded into
\* the player by playSongByIndex.
Library ==
    [songs |-> {"a", "b"},
     playlists |-> [n \in {"Default", "Work"} |-> IF n = "Default" THEN <<"a", "b">> ELSE <<"b", "c">>],
     playlistOrder |-> <<"Default", "Work">>,
     activePlaylist |-> "Default"]

LocalData(s) ==
    [playlists |-> s.musicData.playlists,
     playlistOrder |-> s.musicData.playlistOrder,
     activePlaylist |-> s.musicData.activePlaylist]

\* The history variable: Quiet after a step that completes no transaction,
\* Refused after a performOptimisticUpdate call that found the lock taken,
\* Late after the end of a backend call that its timeout had abandoned.
Quiet ==
    [n |-> 0, kind |-> "none", how |-> "", outcome |-> "none", undoCalls |-> 0,
     errorToast |-> FALSE, successToast |-> FALSE, result |-> "", message |-> "",
     lockAfter |-> FALSE]
Refused == [Quiet EXCEPT !.kind = "refused"]
Late == [Quiet EXCEPT !.kind = "late"]

Idle == [fn |-> "", elapsed |-> 0, status |-> "idle", message |-> ""]

\* The sessions the model starts from: nothing played yet; the first song of
\* the active playlist loaded by playSongByIndex; or, after that, the second
\* song queued by addSelectedToQueue and both songs selected.
Sessions == {"fresh", "playing", "queued"}

InitStore ==
    /\ \E active \in {"Default", "Work"}, session \in Sessions :
        LET md == [Library EXCEPT !.activePlaylist = active]
            p1 == md.playlists[active][1]
            p2 == md.playlists[active][2]
            s == [musicData |-> md,
                  playQueue |-> IF session = "queued" THEN <<p2>> ELSE <<>>,
                  currentSongIndex |-> IF session = "fresh" THEN -1 ELSE 0,
                  selectedSongPaths |-> CASE session = "fresh" -> <<>>
                                          [] session = "playing" -> <<p1>>
                                          [] session = "queued" -> <<p2, p1>>,
                  lastClickedPath |-> IF session = "fresh" THEN NoPath ELSE p1,
                  viewMode |-> "playlist"]
        IN  /\ state = s
            /\ audioSrc = IF session = "fresh" THEN "" ELSE p1
            /\ backend = LocalData(s)
    /\ isUpdating = FALSE
    /\ txs = <<>>
    /\ ext = Idle
    /\ late = {}
    /\ confirms = <<>>
    /\ ready = <<>>
    /\ toast = ""
    /\ last = Quiet
    /\ txCount = 0
    /\ extCount = 0

Init == InitStore /\ bus = Off /\ vl = Off /\ view = Off /\ sch = Off /\ player = Off /\ app = Off

RemoveAt(s, i) == SubSeq(s, 1, i - 1) \o SubSeq(s, i + 1, Len(s))

\* ------------------------------------------------ performOptimisticUpdate
PleaseWait == "info: Please wait for the current operation to complete."

\* `if (isUpdating) { ...; return; }`
LockIgnored == TRUE
LockFree == ~isUpdating

\* The call up to `await apiCall()`: the lock check, the player snapshot, the
\* optimistic action (sAfter is the store it leaves, srcAfter the audio
\* source) and the first remote call of apiCall (todo lists its calls).
performOptimisticUpdate(kind, sAfter, srcAfter, undo, todo, playerWasReset, successMessage) ==
    IF ~LockFree
    THEN /\ toast' = PleaseWait
         /\ last' = Refused
         /\ UNCHANGED <<state, audioSrc, isUpdating, txs, txCount>>
    ELSE /\ txCount < MaxTx
         /\ isUpdating' = TRUE
         /\ state' = sAfter
         /\ audioSrc' = srcAfter
         /\ txs' = Append(txs, [n |-> txCount + Len(txs) + 1, kind |-> kind, undo |-> undo, todo |-> todo,
                                elapsed |-> 0, playerWasReset |-> playerWasReset,
                                originalAudioState |-> IF playerWasReset THEN audioSrc ELSE "",
                                successMessage |-> successMessage,
                                pre |-> state, act |-> sAfter,
                                synced |-> LocalData(state) = backend])
         /\ last' = Quiet
         /\ toast' = ""
         /\ UNCHANGED <<txCount>>

\* The const errorMessagePrefix is declared inside the try block (line 1480);
\* the catch block reads it (line 1508) outside that block's scope, so the
\* read throws a ReferenceError before anything else in the catch block runs.
errorMessagePrefixInCatchScope == FALSE

\* Steps 4 of the try block, run when apiCall returned: no caller passes
\* onSuccess; a success toast is shown when successMessage is given.  "" is
\* no toast.
successStepsUndoing(t, s, src) ==
    [state |-> UndoApply(t.undo, s), src |-> src, undoCalls |-> 1,
     toast |-> IF t.successMessage THEN "success" ELSE ""]
successSteps(t, s, src) ==
    [state |-> s, src |-> src, undoCalls |-> 0,
     toast |-> IF t.successMessage THEN "success" ELSE ""]

\* The catch block, run with the error e that apiCall threw: the error toast,
\* the undo closure, the restoration of the player.
catchBlock(t, message, s, src) ==
    IF errorMessagePrefixInCatchScope
    THEN [state |-> UndoApply(t.undo, s),
          src |-> IF t.playerWasReset THEN t.originalAudioState ELSE src,
          undoCalls |-> 1, toast |-> "error: " \o message]
    ELSE [state |-> s, src |-> src, undoCalls |-> 0, toast |-> ""]

\* `finally { isUpdating = false; }`: the lock after the call has ended,
\* whether or not its try or catch block threw.
lockReleasedOnReturnOnly(thrown) == thrown
lockAfterFinally(thrown) == FALSE

\* The continuation of performOptimisticUpdate after `await apiCall()` has
\* settled for good: steps 4 or 5, then the finally block.  b is the
\* backend's data at that moment.
Complete(i, how, b) ==
    LET t == txs[i]
        r == callApi(how)
        ok == r.kind = "returned"
        end == IF ok THEN successSteps(t, state, audioSrc)
               ELSE catchBlock(t, r.message, state, audioSrc)
    IN  /\ state' = end.state
        /\ audioSrc' = end.src
        /\ toast' = end.toast
        /\ isUpdating' = lockAfterFinally(~ok)
        /\ txs' = RemoveAt(txs, i)
        /\ txCount' = txCount + 1
        /\ last' = [n |-> t.n, kind |-> t.kind, how |-> how,
                    outcome |-> IF ok THEN "success" ELSE "failure",
                    undoCalls |-> end.undoCalls,
                    errorToast |-> ~ok /\ end.toast # "",
                    successToast |-> ok /\ end.toast # "",
                    result |-> r.kind, message |-> r.message,
                    lockAfter |-> lockAfterFinally(~ok),
                    pre |-> t.pre, act |-> t.act, before |-> state, post |-> end.state,
                    synced |-> t.synced, backend |-> b, undo |-> t.undo]

\* apiCall's promise settles; apiCall of deletePlaylist awaits two calls.
TxResume(i, how, b) ==
    IF callApi(how).kind = "returned" /\ Len(txs[i].todo) > 1
    THEN /\ txs' = [txs EXCEPT ![i].todo = Tail(@), ![i].elapsed = 0]
         /\ last' = Quiet
         /\ toast' = ""
         /\ UNCHANGED <<state, audioSrc, isUpdating, txCount>>
    ELSE Complete(i, how, b)

\* ------------------------------------------------------------ the handlers
TxFrame == UNCHANGED <<ext, backend, late, confirms, ready, extCount, others>>

\* completeUrlDownload / finalizeFileImport hand their songs to
\* addSongsToActivePlaylist.
AddSongsToActivePlaylist(songObjects) ==
    /\ ready = <<>>
    /\ LET toAdd == songsToAddToPlaylist(state, songObjects)
           name == state.musicData.activePlaylist
       IN  IF toAdd = <<>>
           THEN /\ toast' = "info: Selected song(s) already exist in this playlist."
                /\ last' = Quiet
                /\ UNCHANGED <<state, audioSrc, isUpdating, txs, ext, backend, late,
                               confirms, ready, txCount, extCount, others>>
           ELSE /\ performOptimisticUpdate("addSongs", AddSongsAction(state, toAdd), audioSrc,
                        AddSongsUndo(state),
                        <<Op("addSongsToPlaylist", name, "", toAdd, <<>>)>>, FALSE, TRUE)
                /\ TxFrame

\* renamePlaylist: the blur of the rename input runs finalize.
RenamePlaylist(oldName, newName) ==
    /\ ready = <<>>
    /\ oldName \in DOMAIN state.musicData.playlists
    /\ newName # oldName
    /\ IF oldName = "Default" \/ newName \in DOMAIN state.musicData.playlists
       THEN /\ toast' = IF oldName = "Default"
                        THEN "error: Cannot rename the Default playlist."
                        ELSE "error: A playlist with this name already exists."
            /\ last' = Quiet
            /\ UNCHANGED <<state, audioSrc, isUpdating, txs, ext, backend, late,
                           confirms, ready, txCount, extCount, others>>
       ELSE /\ performOptimisticUpdate("rename", RenameAction(state, oldName, newName), audioSrc,
                    RenameUndo(state),
                    <<Op("renamePlaylist", oldName, newName, <<>>, <<>>)>>, FALSE, TRUE)
            /\ TxFrame

\* createNewPlaylist, once the prompt has returned a valid new name.
CreateNewPlaylist(newName) ==
    /\ ready = <<>>
    /\ newName \notin DOMAIN state.musicData.playlists
    /\ performOptimisticUpdate("create", CreateAction(state, newName), audioSrc,
            CreateUndo(state),
            <<Op("reorderPlaylists", "", "", <<>>, CreateAction(state, newName).musicData.playlistOrder)>>,
            FALSE, TRUE)
    /\ TxFrame

\* drop of a dragged playlist item before targetName (or at the end).
ReorderPlaylistsDrop(sourceName, targetName) ==
    /\ ready = <<>>
    /\ sourceName \in Range(state.musicData.playlistOrder)
    /\ targetName \in (Range(state.musicData.playlistOrder) \ {sourceName}) \cup {""}
    /\ LET optimisticOrder == ReorderedPlaylists(state.musicData.playlistOrder, sourceName, targetName)
       IN  performOptimisticUpdate("reorderPlaylists", ReorderPlaylistsAction(state, optimisticOrder),
                audioSrc, ReorderPlaylistsUndo(state),
                <<Op("reorderPlaylists", "", "", <<>>, optimisticOrder)>>, FALSE, FALSE)
    /\ TxFrame

\* handleSongReorderDrop: the selected songs are dropped at a row boundary.
SongReorderDrop(rawTarget) ==
    /\ ready = <<>>
    /\ state.selectedSongPaths # <<>>
    /\ IF state.viewMode = "queue"
       THEN /\ state' = setPlayQueue(state, ReorderedPaths(state.playQueue, state.selectedSongPaths, rawTarget))
            /\ last' = Quiet
            /\ toast' = ""
            /\ UNCHANGED <<audioSrc, isUpdating, txs, ext, backend, late, confirms, ready,
                           txCount, extCount, others>>
       ELSE LET name == state.musicData.activePlaylist
                newOrderedPaths == ReorderedPaths(getActivePlaylist(state), state.selectedSongPaths, rawTarget)
            IN  /\ name \in DOMAIN state.musicData.playlists
                /\ performOptimisticUpdate("reorderSongs",
                        ReorderSongsAction(state, name, newOrderedPaths), audioSrc,
                        ReorderSongsUndo(state, name),
                        <<Op("reorderPlaylistSongs", name, "", <<>>, newOrderedPaths)>>, FALSE, FALSE)
                /\ TxFrame

\* drop of the dragged (selected) songs on the playlist item of targetName.
MoveSongsDrop(targetName) ==
    /\ ready = <<>>
    /\ state.selectedSongPaths # <<>>
    /\ LET md == state.musicData
       IN  /\ md.activePlaylist \in DOMAIN md.playlists
           /\ targetName \in DOMAIN md.playlists \ {md.activePlaylist}
           /\ performOptimisticUpdate("moveSongs",
                   MoveSongsAction(state, md.activePlaylist, targetName, state.selectedSongPaths),
                   audioSrc, MoveSongsUndo(state),
                   <<Op("moveSongsToPlaylist", md.activePlaylist, targetName,
                        state.selectedSongPaths, <<>>)>>, FALSE, TRUE)
    /\ TxFrame

\* deletePlaylist up to `await UI.showConfirmation(...)`.
DeletePlaylistRequest(name) ==
    /\ ready = <<>>
    /\ name \in DOMAIN state.musicData.playlists
    /\ IF name = "Default"
       THEN /\ toast' = "error: Cannot delete the Default playlist."
            /\ UNCHANGED confirms
       ELSE /\ Len(confirms) < MaxConfirms
            /\ confirms' = Append(confirms, [kind |-> "deletePlaylist", name |-> name, sel |-> <<>>])
            /\ toast' = ""
    /\ last' = Quiet
    /\ UNCHANGED <<state, audioSrc, isUpdating, txs, ext, backend, late, ready, txCount, extCount, others>>

\* deleteSelectedSongs up to `await UI.showConfirmation(...)`: the selection
\* is read before the await.
DeleteSelectedSongsRequest ==
    /\ ready = <<>>
    /\ state.selectedSongPaths # <<>>
    /\ Len(confirms) < MaxConfirms
    /\ confirms' = Append(confirms, [kind |-> "deleteSongs", name |-> "",
                                     sel |-> state.selectedSongPaths])
    /\ last' = Quiet
    /\ toast' = ""
    /\ UNCHANGED <<state, audioSrc, isUpdating, txs, ext, backend, late, ready, txCount, extCount, others>>

\* The OK button resolves every showConfirmation promise that is waiting, in
\* the order the dialogs were opened; Cancel resolves them with false, and
\* their callers return.
ConfirmOk ==
    /\ ready = <<>>
    /\ confirms # <<>>
    /\ ready' = confirms
    /\ confirms' = <<>>
    /\ last' = Quiet
    /\ toast' = ""
    /\ UNCHANGED <<state, audioSrc, isUpdating, txs, ext, backend, late, txCount, extCount, others>>

ConfirmCancel ==
    /\ ready = <<>>
    /\ confirms # <<>>
    /\ confirms' = <<>>
    /\ last' = Quiet
    /\ toast' = ""
    /\ UNCHANGED <<state, audioSrc, isUpdating, txs, ext, backend, late, ready, txCount, extCount, others>>

\* deletePlaylist after its confirmation.
DeletePlaylistConfirmed ==
    /\ ready # <<>>
    /\ Head(ready).kind = "deletePlaylist"
    /\ LET name == Head(ready).name
           wasPlayingInDeletedPlaylist == state.musicData.activePlaylist = name
       IN  performOptimisticUpdate("deletePlaylist",
                DeletePlaylistAction(state, name, wasPlayingInDeletedPlaylist),
                IF wasPlayingInDeletedPlaylist THEN "" ELSE audioSrc,
                DeletePlaylistUndo(state, name, wasPlayingInDeletedPlaylist),
                <<Op("deletePlaylist", name, "", <<>>, <<>>)>> \o
                    (IF wasPlayingInDeletedPlaylist
                     THEN <<Op("saveActivePlaylist", "Default", "", <<>>, <<>>)>> ELSE <<>>),
                wasPlayingInDeletedPlaylist, TRUE)
    /\ ready' = Tail(ready)
    /\ UNCHANGED <<ext, backend, late, confirms, extCount, others>>

\* deleteSelectedSongs after its confirmation.
DeleteSelectedSongsConfirmed ==
    /\ ready # <<>>
    /\ Head(ready).kind = "deleteSongs"
    /\ LET sel == Head(ready).sel
           wasPlayingSongDeleted == playingSong(state) # NoPath /\ playingSong(state) \in Range(sel)
       IN  performOptimisticUpdate("deleteSongs",
                DeleteSongsAction(state, sel, wasPlayingSongDeleted),
                IF wasPlayingSongDeleted THEN "" ELSE audioSrc,
                DeleteSongsUndo(state, sel),
                <<Op("deleteSongs", "", "", sel, <<>>)>>,
                wasPlayingSongDeleted, TRUE)
    /\ ready' = Tail(ready)
    /\ UNCHANGED <<ext, backend, late, confirms, extCount, others>>

\* ------------------------------------------------------ gateway and clock
\* The wrappers that the list NO_TIMEOUT_METHODS names, called by handlers
\* that run no transaction (import and export dialogs, the yt-dlp update,
\* the state broadcast).
AllowListed ==
    { "importFromFiles", "finalizeFileImport", "changeSongCover", "exportPlaylist",
      "exportPlaylistAsM3U", "importPlaylist", "updateYtDlp", "broadcastStateChange" }

ExtCall(fn) ==
    /\ ready = <<>>
    /\ extCount < MaxCalls
    /\ ext.status # "pending"
    /\ extCount' = extCount + 1
    /\ UNCHANGED others
    /\ ext' = [fn |-> fn, elapsed |-> 0, status |-> "pending", message |-> ""]
    /\ last' = Quiet
    /\ toast' = ""
    /\ UNCHANGED <<state, audioSrc, isUpdating, txs, backend, late, confirms, ready, txCount>>

\* The gateway calls in flight: 0 is the non-transactional call, i > 0 the
\* call of transaction txs[i].
Callers == {c \in 0..Len(txs) : c = 0 => ext.status = "pending"}
OpOf(c) == IF c = 0 THEN Op(ext.fn, "", "", <<>>, <<>>) ELSE Head(txs[c].todo)
ElapsedOf(c) == IF c = 0 THEN ext.elapsed ELSE txs[c].elapsed
TimerDue(c) == useTimeout(OpOf(c).fn) /\ ElapsedOf(c) >= API_TIMEOUT_MS

\* callApi resumes after `await Promise.race(...)` and its caller after it.
Resume(c, how, b) ==
    IF c = 0
    THEN /\ ext' = [ext EXCEPT !.status = callApi(how).kind, !.message = callApi(how).message]
         /\ last' = Quiet
         /\ toast' = ""
         /\ UNCHANGED <<state, audioSrc, isUpdating, txs, txCount>>
    ELSE /\ TxResume(c, how, b)
         /\ UNCHANGED ext

BackendResolves(c) ==
    /\ ready = <<>>
    /\ c \in Callers
    /\ BackendAccepts(OpOf(c), backend)
    /\ backend' = BackendApply(OpOf(c), backend)
    /\ Resume(c, "ok", BackendApply(OpOf(c), backend))
    /\ UNCHANGED <<late, confirms, ready, extCount, others>>

BackendReportsError(c) ==
    /\ ready = <<>>
    /\ c \in Callers
    /\ Resume(c, "error", backend)
    /\ UNCHANGED <<backend, late, confirms, ready, extCount, others>>

BackendRejects(c) ==
    /\ ready = <<>>
    /\ c \in Callers
    /\ Resume(c, "reject", backend)
    /\ UNCHANGED <<backend, late, confirms, ready, extCount, others>>

\* The setTimeout callback of callApi rejects the timeout promise; the
\* backend call it raced against keeps running.
TimeoutFires(c) ==
    /\ ready = <<>>
    /\ c \in Callers
    /\ TimerDue(c)
    /\ late' = late \cup {OpOf(c)}
    /\ Resume(c, "timeout", backend)
    /\ UNCHANGED <<backend, confirms, ready, extCount, others>>

\* A backend call abandoned by its timeout ends: the backend has performed it
\* or failed; its promise has lost the race and nobody reads it.
LateBackendResult(op, performed) ==
    /\ ready = <<>>
    /\ op \in late
    /\ performed => BackendAccepts(op, backend)
    /\ backend' = IF performed THEN BackendApply(op, backend) ELSE backend
    /\ late' = late \ {op}
    /\ last' = Late
    /\ toast' = ""
    /\ UNCHANGED <<state, audioSrc, isUpdating, txs, ext, confirms, ready, txCount, extCount, others>>

\* Time passes; a timer that is due fires before more time passes.
Tick ==
    /\ ready = <<>>
    /\ Callers # {}
    /\ \A c \in Callers : ~TimerDue(c) /\ ElapsedOf(c) < MaxWaitMs
    /\ txs' = [i \in DOMAIN txs |-> [txs[i] EXCEPT !.elapsed = @ + TickMs]]
    /\ ext' = IF ext.status = "pending" THEN [ext EXCEPT !.elapsed = @ + TickMs] ELSE ext
    /\ last' = Quiet
    /\ toast' = ""
    /\ UNCHANGED <<state, audioSrc, isUpdating, backend, late, confirms, ready, txCount, extCount, others>>

\* ------------------------------------------------------------------- Next
SongLists == {<<"a">>, <<"a", "c">>}
DropTargets == {0, 2}

\* The playlist handlers and what the user's confirmation resumes.
Handlers ==
    \/ \E songObjects \in SongLists : AddSongsToActivePlaylist(songObjects)
    \/ \E oldName \in Names, newName \in Names : RenamePlaylist(oldName, newName)
    \/ \E newName \in Names : CreateNewPlaylist(newName)
    \/ \E sourceName \in Names, targetName \in Names \cup {""} : ReorderPlaylistsDrop(sourceName, targetName)
    \/ \E rawTarget \in DropTargets : SongReorderDrop(rawTarget)
    \/ \E targetName \in Names : MoveSongsDrop(targetName)
    \/ \E name \in Names : DeletePlaylistRequest(name)
    \/ DeleteSelectedSongsRequest
    \/ ConfirmOk
    \/ ConfirmCancel
    \/ DeletePlaylistConfirmed
    \/ DeleteSelectedSongsConfirmed

\* The backend's answers, the gateway's timers and the clock.
Gateway ==
    \/ \E c \in 0..Len(txs) : BackendResolves(c)
    \/ \E c \in 0..Len(txs) : BackendReportsError(c)
    \/ \E c \in 0..Len(txs) : BackendRejects(c)
    \/ \E c \in 0..Len(txs) : TimeoutFires(c)
    \/ \E op \in late, performed \in BOOLEAN : LateBackendResult(op, performed)
    \/ Tick

\* The optimistic transactions and their remote calls.
Next == Handlers \/ Gateway

Spec == Init /\ [][Next]_vars

\* The gateway on its own: calls of the allow-listed wrappers.
NextGateway == (\E fn \in AllowListed : ExtCall(fn)) \/ Gateway

SpecGateway == Init /\ [][NextGateway]_vars

\* ---------------------------------------------------------------- pub/sub
MaxSubscribers == 2   \* subscribe calls with a function

\* The variables of the transactions other than the store.
txVars == <<audioSrc, isUpdating, txs, ext, backend, late, confirms, ready, toast, last,
            txCount, extCount>>

\* The store of a session in which nothing has been played yet.
InitFresh == InitStore /\ state.musicData.activePlaylist = "Default" /\ audioSrc = ""

\* Event names are the names of the store fields.  A registered callback is
\* known by the number of its registration and by whether its body throws.
Events == {"viewMode", "currentSongIndex", "musicData"}
NoSet == [event |-> "", value |-> "", threw |-> FALSE]

InitPubSub ==
    /\ InitFresh
    /\ bus = [on |-> TRUE, subscribers |-> <<>>, registered |-> 0, calls |-> <<>>, set |-> NoSet]
    /\ vl = Off /\ view = Off /\ sch = Off /\ player = Off /\ app = Off

\* subscribe(event, callback)
subscribe(b, event, isFunction, throws) ==
    IF ~isFunction THEN [b EXCEPT !.calls = <<>>, !.set = NoSet]
    ELSE LET list == IF event \in DOMAIN b.subscribers THEN b.subscribers[event] ELSE <<>>
             callback == [id |-> b.registered + 1, throws |-> throws]
         IN  [b EXCEPT !.subscribers = With(@, event, Append(list, callback)),
                       !.registered = @ + 1, !.calls = <<>>, !.set = NoSet]

\* publish(event, data): subscribers[event]?.forEach(callback => callback(data)).
\* forEach stops at the first callback that throws, and publish throws with it.
publish(subscribers, event, data) ==
    LET list == IF event \in DOMAIN subscribers THEN subscribers[event] ELSE <<>>
        throwing == {i \in DOMAIN list : list[i].throws}
        stop == IF throwing = {} THEN Len(list)
                ELSE CHOOSE i \in throwing : \A j \in throwing : i <= j
    IN  [calls |-> [i \in 1..stop |-> [event |-> event, cb |-> list[i].id, data |-> data]],
         threw |-> throwing # {}]

Subscribe(event, isFunction, throws) ==
    /\ isFunction => bus.registered < MaxSubscribers
    /\ bus' = subscribe(bus, event, isFunction, throws)
    /\ UNCHANGED <<state, txVars, vl, view, sch, player, app>>

\* A setter writes its field and publishes the event of that name with the
\* new value; setMusicData publishes state.musicData.
Setter(event, v) ==
    /\ state' = CASE event = "viewMode" -> setViewMode(state, v)
                  [] event = "currentSongIndex" -> setCurrentSongIndex(state, v)
                  [] event = "musicData" -> setMusicData(state, v)
    /\ LET data == IF event = "musicData" THEN state'.musicData ELSE v
           p == publish(bus.subscribers, event, data)
       IN  bus' = [bus EXCEPT !.calls = p.calls,
                              !.set = [event |-> event, value |-> data, threw |-> p.threw]]
    /\ UNCHANGED <<txVars, vl, view, sch, player, app>>

SetViewMode == \E v \in {"playlist", "queue"} : Setter("viewMode", v)
SetCurrentSongIndex == \E v \in {-1, 0} : Setter("currentSongIndex", v)
SetMusicData ==
    \E active \in {"Default", "Work"} : Setter("musicData", [Library EXCEPT !.activePlaylist = active])

NextPubSub ==
    \/ \E event \in Events, isFunction \in BOOLEAN, throws \in BOOLEAN :
            Subscribe(event, isFunction, throws)
    \/ SetViewMode
    \/ SetCurrentSongIndex
    \/ SetMusicData

SpecPubSub == InitPubSub /\ [][NextPubSub]_vars

\* ------------------------------------------------------------- song cache
\* The `state` object as the module creates it: an empty cache and an empty
\* Default playlist.
EmptyStore ==
    [musicData |-> [songs |-> {},
                    playlists |-> [n \in {"Default"} |-> <<>>],
                    playlistOrder |-> <<"Default">>,
                    activePlaylist |-> "Default"],
     playQueue |-> <<>>, currentSongIndex |-> -1, selectedSongPaths |-> <<>>,
     lastClickedPath |-> NoPath, viewMode |-> "playlist"]

\* getActivePlaylist with its objects told apart: a song object from the
\* cache, or the placeholder { path, isPlaceholder: true }.
activePlaylistSongs(s) ==
    LET activePlaylistPaths == getActivePlaylist(s)
    IN  [i \in DOMAIN activePlaylistPaths |->
            [path |-> activePlaylistPaths[i],
             isPlaceholder |-> activePlaylistPaths[i] \notin s.musicData.songs]]

cacheFrame == <<audioSrc, isUpdating, txs, ext, backend, late, confirms, ready, toast,
                txCount, extCount, bus, vl, view, sch, player, app>>

\* No transaction, no gateway call and no dialog has been started.
NothingStarted ==
    /\ audioSrc = ""
    /\ isUpdating = FALSE
    /\ txs = <<>>
    /\ ext = Idle
    /\ backend = LocalData(EmptyStore)
    /\ late = {}
    /\ confirms = <<>>
    /\ ready = <<>>
    /\ toast = ""
    /\ last = Quiet
    /\ txCount = 0
    /\ extCount = 0

InitCache ==
    /\ state = EmptyStore
    /\ NothingStarted
    /\ bus = Off /\ vl = Off /\ view = Off /\ sch = Off /\ player = Off /\ app = Off

\* addSongsToCache(songsMap), called by the virtual list with a fetched batch.
AddSongsToCache(S) ==
    /\ state' = IF S = {} THEN state ELSE addSongsToCache(state, S)
    /\ last' = [kind |-> "addSongsToCache", paths |-> S]
    /\ UNCHANGED cacheFrame

\* setMusicData(data), with the library the backend sends at startup or
\* after an import.
LoadMusicData(active) ==
    /\ state' = setMusicData(state, [Library EXCEPT !.activePlaylist = active])
    /\ last' = Quiet
    /\ UNCHANGED cacheFrame

\* setActivePlaylist(name); the name may be one that playlists does not hold.
ActivatePlaylist(name) ==
    /\ state' = setActivePlaylist(state, name)
    /\ last' = Quiet
    /\ UNCHANGED cacheFrame

NextCache ==
    \/ \E S \in SUBSET Paths : AddSongsToCache(S)
    \/ \E active \in {"Default", "Work"} : LoadMusicData(active)
    \/ \E name \in Names : ActivatePlaylist(name)

SpecCache == InitCache /\ [][NextCache]_vars

\* ----------------------------------------------------------- virtual list
ITEM_HEIGHT == 46
BUFFER_ITEMS == 5
MaxFrames == 1        \* renderVisibleSongs callbacks waiting for their frame

\* A data source is known by its length; its row i holds the song whose path
\* is numbered first + i.
DataSources ==
    { [len |-> 0, first |-> 0], [len |-> 3, first |-> 0], [len |-> 30, first |-> 0],
      [len |-> 10000, first |-> 0] }
\* The data sources of a session with a library of five songs.
ShortSources ==
    { [len |-> 0, first |-> 0], [len |-> 3, first |-> 0], [len |-> 2, first |-> 3] }
PathAt(ds, i) == ds.first + i
Heights == {100, 460}
ScrollTops == {0, 23, 460, 459540}
\* The paths the backend does not know and leaves out of its answer.
UnknownPaths == {1}

MaxScrollTop(v) == Max(0, v.dataSource.len * ITEM_HEIGHT - v.clientHeight)

ListAtStart(songCache) ==
    /\ NothingStarted
    /\ state = [EmptyStore EXCEPT !.musicData.songs = songCache]
    /\ \E h \in Heights :
        vl = [on |-> TRUE, scrollTop |-> 0, clientHeight |-> h,
              dataSource |-> [len |-> 0, first |-> 0], visibleNodes |-> <<>>,
              isRenderScheduled |-> FALSE, frames |-> 0,
              pendingPathsToFetch |-> {}, pathsCurrentlyFetching |-> {},
              timer |-> FALSE, batches |-> <<>>,
              rendered |-> FALSE, requested |-> {}, issued |-> {}, quiet |-> FALSE]
    /\ bus = Off /\ view = Off /\ sch = Off /\ player = Off /\ app = Off

\* A session that starts with an empty song cache.
InitList == ListAtStart({})

\* A session whose songs are all in the cache.
InitWindow == ListAtStart(0..9999)

\* renderVisibleSongs: the window of rows.
startIndex(v) == v.scrollTop \div ITEM_HEIGHT
numVisibleItems(v) == (v.clientHeight + ITEM_HEIGHT - 1) \div ITEM_HEIGHT
renderStartIndexUnclamped(v) == startIndex(v) - BUFFER_ITEMS
renderStartIndex(v) == Max(0, startIndex(v) - BUFFER_ITEMS)
renderEndIndexWithoutBuffer(v) == Min(v.dataSource.len - 1, startIndex(v) + numVisibleItems(v))
renderEndIndex(v) == Min(v.dataSource.len - 1, startIndex(v) + numVisibleItems(v) + BUFFER_ITEMS)

\* renderVisibleSongs: the pool grows to the size of the window, its first
\* nodes are given the rows of the window, the others are hidden; the paths
\* of the rows that are not in the cache join pendingPathsToFetch and the
\* debounced processPendingFetches is called.
renderVisibleSongs(v, songCache) ==
    LET lo == renderStartIndex(v)
        hi == renderEndIndex(v)
        poolSize == Max(Len(v.visibleNodes), hi - lo + 1)
        NewNode == [y |-> 0, path |-> -1, loading |-> FALSE, hidden |-> FALSE]
        pool == [k \in 1..poolSize |-> IF k <= Len(v.visibleNodes) THEN v.visibleNodes[k] ELSE NewNode]
        Row(k) == lo + k - 1
        nodes == [k \in 1..poolSize |->
                    IF Row(k) <= hi
                    THEN [y |-> Row(k) * ITEM_HEIGHT,
                          path |-> PathAt(v.dataSource, Row(k)),
                          loading |-> PathAt(v.dataSource, Row(k)) \notin songCache,
                          hidden |-> FALSE]
                    ELSE [pool[k] EXCEPT !.hidden = TRUE]]
        loadingPaths == {PathAt(v.dataSource, i) : i \in {j \in lo..hi : PathAt(v.dataSource, j) \notin songCache}}
    IN  [v EXCEPT !.isRenderScheduled = FALSE,
                  !.visibleNodes = nodes,
                  !.pendingPathsToFetch = @ \cup loadingPaths,
                  !.timer = TRUE,
                  !.rendered = TRUE]

\* What a step that runs no render and issues no fetch leaves in the marks.
Unmarked(v) == [v EXCEPT !.rendered = FALSE, !.requested = {}, !.issued = {}]

listFrame == <<audioSrc, isUpdating, txs, ext, backend, late, confirms, ready, toast, last,
               txCount, extCount, bus, view, sch, player, app>>

\* The scroll listener of initVirtualList; the browser has moved scrollTop.
Scroll(top) ==
    /\ top <= MaxScrollTop(vl)
    /\ top # vl.scrollTop
    /\ ~vl.isRenderScheduled => vl.frames < MaxFrames
    /\ vl' = [Unmarked(vl) EXCEPT !.scrollTop = top,
                                  !.isRenderScheduled = TRUE,
                                  !.frames = IF vl.isRenderScheduled THEN @ ELSE @ + 1,
                                  !.quiet = FALSE]
    /\ UNCHANGED <<state, listFrame>>

\* requestAnimationFrame calls renderVisibleSongs.
Frame ==
    /\ vl.frames > 0
    /\ vl' = renderVisibleSongs([Unmarked(vl) EXCEPT !.frames = @ - 1], state.musicData.songs)
    /\ UNCHANGED <<state, listFrame>>

\* renderSongList from where it has its data source: the sizer gets its
\* height (the browser keeps scrollTop within it) and renderVisibleSongs runs.
RenderSongList(ds) ==
    /\ ds # vl.dataSource
    /\ LET v == [Unmarked(vl) EXCEPT !.dataSource = ds, !.quiet = FALSE]
       IN  vl' = renderVisibleSongs([v EXCEPT !.scrollTop = Min(@, MaxScrollTop(v))],
                                    state.musicData.songs)
    /\ UNCHANGED <<state, listFrame>>

\* fetchSongData: the paths of the request that are not in flight.
newPathsUnfiltered(v, pathsToRequest) == pathsToRequest
newPaths(v, pathsToRequest) == pathsToRequest \ v.pathsCurrentlyFetching

\* The debounce timer fires: processPendingFetches empties the accumulator
\* and fetchSongData issues Api.getSongsByPaths for the new paths.
DebounceFires ==
    /\ vl.timer
    /\ LET v == [Unmarked(vl) EXCEPT !.timer = FALSE]
           pathsToFetch == vl.pendingPathsToFetch
           batch == newPaths(vl, pathsToFetch)
       IN  vl' = IF pathsToFetch = {} THEN v
                 ELSE IF batch = {}
                 THEN [v EXCEPT !.pendingPathsToFetch = {}, !.requested = pathsToFetch]
                 ELSE [v EXCEPT !.pendingPathsToFetch = {},
                                !.requested = pathsToFetch,
                                !.pathsCurrentlyFetching = @ \cup batch,
                                !.batches = Append(@, batch),
                                !.issued = batch]
    /\ UNCHANGED <<state, listFrame>>

\* The engine was at rest but for batch k: nothing else is in flight, no timer
\* and no frame is waiting.
AtRestBut(v, k) == Len(v.batches) = 1 /\ ~v.timer /\ v.frames = 0

\* the finally block of fetchSongData for batch k: its paths leave the
\* in-flight set
settleKeepingInFlight(v, k) == [v EXCEPT !.batches = RemoveAt(@, k)]
settle(v, k) == [v EXCEPT !.pathsCurrentlyFetching = @ \ v.batches[k], !.batches = RemoveAt(@, k)]

\* Api.getSongsByPaths resolves: the songs join the cache, the list is
\* rendered, then the finally block takes the batch out of the in-flight set.
BatchResolves(k, omitted) ==
    /\ k \in DOMAIN vl.batches
    /\ LET batch == vl.batches[k]
           songsMap == batch \ omitted
           songCache == IF songsMap = {} THEN state.musicData.songs
                        ELSE addSongsToCache(state, songsMap).musicData.songs
           v == renderVisibleSongs(Unmarked(vl), songCache)
       IN  /\ state' = [state EXCEPT !.musicData.songs = songCache]
           /\ vl' = [settle(v, k) EXCEPT !.quiet = AtRestBut(vl, k)]
    /\ UNCHANGED listFrame

\* Api.getSongsByPaths fails: the catch block logs, the finally block takes
\* the batch out of the in-flight set.
BatchFails(k) ==
    /\ k \in DOMAIN vl.batches
    /\ vl' = [settle(Unmarked(vl), k) EXCEPT !.quiet = AtRestBut(vl, k)]
    /\ UNCHANGED <<state, listFrame>>

NextList ==
    \/ \E top \in ScrollTops : Scroll(top)
    \/ Frame
    \/ \E ds \in ShortSources : RenderSongList(ds)
    \/ DebounceFires
    \/ \E k \in 1..Len(vl.batches), omitted \in {{}, UnknownPaths} : BatchResolves(k, omitted)
    \/ \E k \in 1..Len(vl.batches) : BatchFails(k)

SpecList == InitList /\ [][NextList]_vars

\* With every song in the cache no batch is ever issued.
NextWindow ==
    \/ \E top \in ScrollTops : Scroll(top)
    \/ Frame
    \/ \E ds \in DataSources : RenderSongList(ds)
    \/ DebounceFires

SpecWindow == InitWindow /\ [][NextWindow]_vars

\* ------------------------------------------------------------ empty states
\* What the search box holds: nothing, or a term.
Queries == {"", "term"}
MaxQueue == 1         \* songs in the play queue

InitView ==
    /\ NothingStarted
    /\ state \in {EmptyStore, setMusicData(EmptyStore, Library)}
    /\ view = [on |-> TRUE, searchMode |-> "filter", searchInput |-> "",
               songListHidden |-> FALSE, playlistEmptyStateHidden |-> TRUE,
               queueEmptyStateHidden |-> TRUE, emptyStateTitle |-> "",
               dataSourceLength |-> 0, rendered |-> FALSE]
    /\ bus = Off /\ vl = Off /\ sch = Off /\ player = Off /\ app = Off

viewFrame == <<txVars, bus, vl, sch, player, app>>

\* toggleViewMode, the click handler of the view toggle button, which the
\* header hides in global search.
ToggleViewMode ==
    /\ view.searchMode = "filter"
    /\ state' = setLastClickedPath(
                    setSelectedSongPaths(
                        setViewMode(state, IF state.viewMode = "playlist" THEN "queue" ELSE "playlist"),
                        <<>>),
                    NoPath)
    /\ view' = [view EXCEPT !.rendered = FALSE]
    /\ UNCHANGED viewFrame

\* The click handler of the search mode toggle button.
ToggleSearchMode ==
    /\ view' = [view EXCEPT !.searchMode = IF @ = "filter" THEN "global" ELSE "filter",
                            !.rendered = FALSE]
    /\ UNCHANGED <<state, viewFrame>>

\* The user edits the search box.
Type(q) ==
    /\ q # view.searchInput
    /\ view' = [view EXCEPT !.searchInput = q, !.rendered = FALSE]
    /\ UNCHANGED <<state, viewFrame>>

\* addSelectedToQueue with the first song of the active playlist selected.
AddToQueue ==
    /\ getActivePlaylist(state) # <<>>
    /\ Len(state.playQueue) < MaxQueue
    /\ state' = setPlayQueue(state, Append(state.playQueue, getActivePlaylist(state)[1]))
    /\ view' = [view EXCEPT !.rendered = FALSE]
    /\ UNCHANGED viewFrame

\* clearQueue.
ClearQueue ==
    /\ state' = setPlayQueue(state, <<>>)
    /\ view' = [view EXCEPT !.rendered = FALSE]
    /\ UNCHANGED viewFrame

\* renderSongList; matches is the number of songs the search finds (the
\* backend's answer, or the local filter of the queue), at most the number
\* of songs searched.
renderSongList(v, s, matches) ==
    LET viewMode == s.viewMode
        searchMode == v.searchMode
        isSearching == v.searchInput # ""
        isLibraryTotallyEmpty ==
            /\ Len(s.musicData.playlistOrder) <= 1
            /\ Len(IF "Default" \in DOMAIN s.musicData.playlists
                   THEN s.musicData.playlists["Default"] ELSE <<>>) = 0
        searched == IF searchMode = "global" THEN Cardinality(s.musicData.songs)
                    ELSE IF viewMode = "queue" THEN Len(s.playQueue)
                    ELSE Len(getActivePlaylist(s))
        found == Min(matches, searched)
        dataSourceLength ==
            IF searchMode = "global" THEN (IF isSearching THEN found ELSE 0)
            ELSE IF isSearching THEN found ELSE searched
        originalListLength ==
            IF searchMode = "global" THEN dataSourceLength
            ELSE IF viewMode = "queue" THEN Len(s.playQueue)
            ELSE Len(getActivePlaylist(s))
        hasResults == dataSourceLength > 0
        showPlaylistEmptyState ==
            (viewMode = "playlist" \/ searchMode = "global") /\ ~isSearching /\ isLibraryTotallyEmpty
        showQueueEmptyState == viewMode = "queue" /\ originalListLength = 0 /\ ~isSearching
        showNoResultsState == isSearching /\ ~hasResults
        showGlobalSearchPrompt == searchMode = "global" /\ ~isSearching /\ ~isLibraryTotallyEmpty
        showList == ~showPlaylistEmptyState /\ ~showQueueEmptyState
                    /\ ~showNoResultsState /\ ~showGlobalSearchPrompt
    IN  [v EXCEPT !.songListHidden = ~showList,
                  !.playlistEmptyStateHidden =
                      ~showPlaylistEmptyState /\ ~showNoResultsState /\ ~showGlobalSearchPrompt,
                  !.queueEmptyStateHidden = ~showQueueEmptyState,
                  !.emptyStateTitle = IF showPlaylistEmptyState THEN "Library is Empty"
                                      ELSE IF showNoResultsState THEN "No Results Found"
                                      ELSE IF showGlobalSearchPrompt THEN "Global Search"
                                      ELSE @,
                  !.dataSourceLength = dataSourceLength,
                  !.rendered = TRUE]

RenderView(matches) ==
    /\ view' = renderSongList(view, state, matches)
    /\ UNCHANGED <<state, viewFrame>>

NextView ==
    \/ ToggleViewMode
    \/ ToggleSearchMode
    \/ \E q \in Queries : Type(q)
    \/ AddToQueue
    \/ ClearQueue
    \/ \E matches \in 0..1 : RenderView(matches)

SpecView == InitView /\ [][NextView]_vars

\* -------------------------------------------------------- render scheduler
\* The flags of dirty, and the updates that subscribers pass to scheduleRender
\* (musicData, selectedSongPaths, currentSongIndex, selectedMarker).
Flags == {"songList", "songListStyles", "playlists", "player", "header", "shuffleRepeat", "marker"}
Updates ==
    { {"songList", "playlists", "header"}, {"songListStyles"},
      {"songListStyles", "player"}, {"marker"} }

\* dirty is the set of flags that are true; pc is where performScheduledRenders
\* is suspended; ran lists the updates the running callback has performed;
\* owed holds the flags passed to scheduleRender whose update has not been
\* performed since.
InitScheduler ==
    /\ NothingStarted
    /\ state = EmptyStore
    /\ sch = [on |-> TRUE, isRenderScheduled |-> FALSE, dirty |-> {}, frames |-> 0,
              pc |-> "idle", ran |-> <<>>, owed |-> {}, called |-> FALSE]
    /\ bus = Off /\ vl = Off /\ view = Off /\ player = Off /\ app = Off

schedulerFrame == <<state, txVars, bus, vl, view, player, app>>

\* scheduleRender: whether it asks for a frame.
requestsFrame(s) == ~s.isRenderScheduled

scheduleRender(s, updates) ==
    [s EXCEPT !.dirty = @ \cup updates,
              !.isRenderScheduled = TRUE,
              !.frames = IF requestsFrame(s) THEN @ + 1 ELSE @,
              !.owed = @ \cup updates,
              !.called = TRUE]

ScheduleRender(updates) ==
    /\ sch' = scheduleRender(sch, updates)
    /\ UNCHANGED schedulerFrame

\* An update of the callback is performed.
Perform(s, update, serves) == [s EXCEPT !.ran = Append(@, update), !.owed = @ \ serves]

\* performScheduledRenders: the style refresh runs when no full rebuild does.
styleRefresh(s) == "songList" \notin s.dirty /\ "songListStyles" \in s.dirty

\* performScheduledRenders after the player update: shuffle/repeat, marker,
\* then the reset of the flags.
finishRenders(s) ==
    LET s1 == IF "shuffleRepeat" \in s.dirty THEN Perform(s, "shuffleRepeat", {"shuffleRepeat"}) ELSE s
        s2 == IF "marker" \in s1.dirty THEN Perform(s1, "marker", {"marker"}) ELSE s1
    IN  [s2 EXCEPT !.isRenderScheduled = FALSE, !.dirty = {}, !.pc = "idle"]

\* performScheduledRenders after the song list: playlists, header, player
\* (suspending at the cover fetch of updatePlayerInfo when it needs one).
afterSongList(s, fetchesCover) ==
    LET s1 == IF "playlists" \in s.dirty THEN Perform(s, "playlists", {"playlists"}) ELSE s
        s2 == IF "header" \in s1.dirty THEN Perform(s1, "header", {"header"}) ELSE s1
        s3 == IF "player" \in s2.dirty THEN Perform(s2, "player", {"player"}) ELSE s2
    IN  IF "player" \in s2.dirty /\ fetchesCover
        THEN [s3 EXCEPT !.pc = "updatePlayerInfo"]
        ELSE finishRenders(s3)

\* requestAnimationFrame calls performScheduledRenders; it runs to its first
\* await: the search of renderSongList, the cover fetch of updatePlayerInfo,
\* or to its end.
performScheduledRenders(searches, fetchesCover) ==
    /\ sch.frames > 0
    /\ LET s == [sch EXCEPT !.frames = @ - 1, !.ran = <<>>, !.called = FALSE]
       IN  sch' = IF "songList" \in s.dirty
                  THEN LET r == Perform(s, "songList", {"songList", "songListStyles"})
                       IN  IF searches THEN [r EXCEPT !.pc = "renderSongList"]
                           ELSE afterSongList(r, fetchesCover)
                  ELSE IF styleRefresh(s)
                  THEN afterSongList(Perform(s, "songListStyles", {"songListStyles"}), fetchesCover)
                  ELSE afterSongList(s, fetchesCover)

FrameCallback(searches, fetchesCover) ==
    /\ performScheduledRenders(searches, fetchesCover)
    /\ UNCHANGED schedulerFrame

\* The search of renderSongList resolves: the list is rendered with the
\* styles of the moment and the callback goes on.
resumeAfterSearch(fetchesCover) ==
    /\ sch.pc = "renderSongList"
    /\ sch' = afterSongList([sch EXCEPT !.owed = @ \ {"songListStyles"}, !.called = FALSE],
                            fetchesCover)

SearchResolves(fetchesCover) ==
    /\ resumeAfterSearch(fetchesCover)
    /\ UNCHANGED schedulerFrame

\* The search of renderSongList fails: callApi throws, renderSongList and
\* performScheduledRenders reject, and nothing after the await runs.
SearchRejects ==
    /\ sch.pc = "renderSongList"
    /\ sch' = [sch EXCEPT !.pc = "idle", !.called = FALSE]
    /\ UNCHANGED schedulerFrame

\* The cover fetch of updatePlayerInfo settles (its own catch turns a failure
\* into no cover).
CoverSettles ==
    /\ sch.pc = "updatePlayerInfo"
    /\ sch' = finishRenders([sch EXCEPT !.called = FALSE])
    /\ UNCHANGED schedulerFrame

NextScheduler ==
    \/ \E updates \in Updates : ScheduleRender(updates)
    \/ \E searches, fetchesCover \in BOOLEAN : FrameCallback(searches, fetchesCover)
    \/ \E fetchesCover \in BOOLEAN : SearchResolves(fetchesCover)
    \/ SearchRejects
    \/ CoverSettles

SpecScheduler == InitScheduler /\ [][NextScheduler]_vars

\* ----------------------------------------------------------------- sidebar
\* The playlist list of the sidebar holds the items renderPlaylists made at
\* its last call; its handlers take their playlist name from the item.
InitSidebar ==
    /\ InitFresh
    /\ sch = [on |-> TRUE, isRenderScheduled |-> FALSE, dirty |-> {}, frames |-> 0,
              pc |-> "idle", ran |-> <<>>, owed |-> {}, called |-> FALSE]
    /\ view = [on |-> TRUE, playlistItems |-> state.musicData.playlistOrder]
    /\ bus = Off /\ vl = Off /\ player = Off /\ app = Off

\* The flags the subscribers of main.js pass to scheduleRender for the keys
\* an operation publishes.
RenderFlags(keys) ==
    UNION { CASE k = "activePlaylist" -> {"playlists", "songList", "header"}
              [] k = "playlistOrder" -> {"playlists"}
              [] k = "playlists" -> {"songList"}
              [] k = "viewMode" -> {"songList", "header"}
              [] k = "currentSongIndex" -> {"songListStyles", "player"}
              [] k = "selectedSongPaths" -> {"songListStyles"}
              [] OTHER -> {} : k \in keys }

PlayerResetKeys == {"activePlaylist", "viewMode", "currentSongIndex", "selectedSongPaths",
                    "lastClickedPath", "playQueue"}

sidebarFrame == <<ext, backend, late, confirms, ready, toast, last, txs, txCount, extCount,
                  bus, vl, player, app>>

\* renderPlaylists: one item per name of playlistOrder.
renderPlaylists(s) == [on |-> TRUE, playlistItems |-> s.musicData.playlistOrder]

\* The step performed the playlists update of performScheduledRenders.
PlaylistsRendered ==
    /\ "playlists" \in Range(sch'.ran)
    /\ sch'.frames < sch.frames \/ "playlists" \notin Range(sch.ran)

SidebarFrameCallback(searches, fetchesCover) ==
    /\ performScheduledRenders(searches, fetchesCover)
    /\ view' = IF PlaylistsRendered THEN renderPlaylists(state) ELSE view
    /\ UNCHANGED <<state, audioSrc, isUpdating, sidebarFrame>>

SidebarSearchResolves(fetchesCover) ==
    /\ resumeAfterSearch(fetchesCover)
    /\ view' = IF PlaylistsRendered THEN renderPlaylists(state) ELSE view
    /\ UNCHANGED <<state, audioSrc, isUpdating, sidebarFrame>>

\* switchPlaylist: the store writes.
switchPlaylist(s, name) ==
    setPlayQueue(setLastClickedPath(setSelectedSongPaths(setCurrentSongIndex(
        setViewMode(setActivePlaylist(s, name), "playlist"), -1), <<>>), NoPath), <<>>)

\* A click on an item of the playlist list, with the sidebar at rest: no
\* frame is waiting and no callback is running.
SwitchPlaylistClick(name) ==
    /\ name \in Range(view.playlistItems)
    /\ sch.frames = 0 /\ sch.pc = "idle"
    /\ state.musicData.activePlaylist # name
    /\ state' = switchPlaylist(state, name)
    /\ audioSrc' = ""
    /\ sch' = scheduleRender(sch, RenderFlags(PlayerResetKeys))
    /\ UNCHANGED <<view, isUpdating, sidebarFrame>>

\* Delete in the context menu of an item, confirmed, with the lock free.
SidebarDelete(name) ==
    /\ name \in Range(view.playlistItems)
    /\ name # "Default"
    /\ ~isUpdating
    /\ LET wasPlayingInDeletedPlaylist == state.musicData.activePlaylist = name
       IN  /\ state' = DeletePlaylistAction(state, name, wasPlayingInDeletedPlaylist)
           /\ audioSrc' = IF wasPlayingInDeletedPlaylist THEN "" ELSE audioSrc
           /\ sch' = scheduleRender(sch, RenderFlags({"playlistOrder", "playlists"} \cup
                        (IF wasPlayingInDeletedPlaylist THEN PlayerResetKeys ELSE {})))
    /\ isUpdating' = TRUE
    /\ UNCHANGED <<view, sidebarFrame>>

\* Rename in the context menu of an item whose playlist exists, finalized
\* with a name that passes the checks, with the lock free.
SidebarRename(oldName, newName) ==
    /\ oldName \in Range(view.playlistItems)
    /\ oldName \in DOMAIN state.musicData.playlists
    /\ oldName # "Default"
    /\ newName \notin DOMAIN state.musicData.playlists
    /\ ~isUpdating
    /\ state' = RenameAction(state, oldName, newName)
    /\ sch' = scheduleRender(sch, RenderFlags({"activePlaylist", "playlistOrder", "playlists"}))
    /\ isUpdating' = TRUE
    /\ UNCHANGED <<view, audioSrc, sidebarFrame>>

\* createNewPlaylist with a name the prompt accepts, with the lock free.
SidebarCreate(newName) ==
    /\ newName \notin DOMAIN state.musicData.playlists
    /\ ~isUpdating
    /\ state' = CreateAction(state, newName)
    /\ sch' = scheduleRender(sch, RenderFlags({"playlistOrder", "playlists"}))
    /\ isUpdating' = TRUE
    /\ UNCHANGED <<view, audioSrc, sidebarFrame>>

\* The remote call of the transaction settles: on success nothing is
\* written; on failure the catch block throws before the undo; finally
\* frees the lock.
SidebarTxSettles ==
    /\ isUpdating
    /\ isUpdating' = FALSE
    /\ UNCHANGED <<state, sch, view, audioSrc, sidebarFrame>>

NextSidebar ==
    \/ \E name \in Names : SwitchPlaylistClick(name)
    \/ \E name \in Names : SidebarDelete(name)
    \/ \E oldName, newName \in Names : SidebarRename(oldName, newName)
    \/ \E newName \in Names : SidebarCreate(newName)
    \/ SidebarTxSettles
    \/ ScheduleRender({"songListStyles", "player"})
    \/ \E searches, fetchesCover \in BOOLEAN : SidebarFrameCallback(searches, fetchesCover)
    \/ \E fetchesCover \in BOOLEAN : SidebarSearchResolves(fetchesCover)
    \/ SearchRejects
    \/ CoverSettles

SpecSidebar == InitSidebar /\ [][NextSidebar]_vars

\* ---------------------------------------------------------------- markers
\* player.js and ui/markers.js: the markers of the current song. Timestamps
\* are counted in quarters of a second, ids come from Date.now() and are
\* modelled by a counter. A pending save is the suspended deleteMarker or
\* updateMarkerTimestamp call with its originalMarkers snapshot.

MaxMarkers == 2
MaxSaves == 2

\* sample positions: 0 s, 0.25 s and 0.75 s
Times == {0, 1, 3}

Abs(n) == IF n < 0 THEN 0 - n ELSE n

\* Math.abs(m.timestamp - newTimestamp) < 0.5, in quarters of a second
tooClose(a, b) == Abs(a - b) * 25 < 50

isSorted(ms) == \A i \in 1..Len(ms) - 1 : ms[i].timestamp <= ms[i + 1].timestamp

\* markers.sort((a, b) => a.timestamp - b.timestamp): stable
RECURSIVE sortMarkersFrom(_, _)
sortMarkersFrom(ms, sorted) ==
    IF ms = <<>> THEN sorted
    ELSE LET mk == Head(ms)
             k == Cardinality({i \in 1..Len(sorted) : sorted[i].timestamp <= mk.timestamp})
         IN sortMarkersFrom(Tail(ms),
                SubSeq(sorted, 1, k) \o <<mk>> \o SubSeq(sorted, k + 1, Len(sorted)))

markersAsLeft(ms) == ms
sortMarkers(ms) == sortMarkersFrom(ms, <<>>)

\* the pending saves without the k-th, which has settled
settled(saves, k) == SubSeq(saves, 1, k - 1) \o SubSeq(saves, k + 1, Len(saves))

NoMarkerOp == [op |-> "none", id |-> 0, from |-> 0]

InitMarkers ==
    /\ state = EmptyStore /\ NothingStarted
    /\ bus = Off /\ vl = Off /\ view = Off /\ sch = Off /\ app = Off
    /\ player = [on |-> TRUE, currentTime |-> 0, markers |-> <<>>, nextId |-> 1,
                 saves |-> <<>>, started |-> 0, persisted |-> <<>>, done |-> NoMarkerOp]

markersFrame == <<state, txVars, bus, vl, view, sch, app>>

markerIndex(ms, id) == IF \E i \in 1..Len(ms) : ms[i].id = id
                       THEN CHOOSE i \in 1..Len(ms) : ms[i].id = id /\ \A j \in 1..(i - 1) : ms[j].id # id
                       ELSE 0

\* audioPlayer.currentTime moves, by playback or by a seek
TimeUpdate(timestamp) ==
    /\ timestamp # player.currentTime
    /\ player' = [player EXCEPT !.currentTime = timestamp, !.done = NoMarkerOp]
    /\ UNCHANGED markersFrame

\* the add-marker button and the seek bar double click: the same check and insertion
insertMarker(p, timestamp) ==
    IF \E i \in 1..Len(p.markers) : tooClose(p.markers[i].timestamp, timestamp)
    THEN [p EXCEPT !.done = [op |-> "rejected", id |-> 0, from |-> 0]]
    ELSE [p EXCEPT !.markers = sortMarkers(Append(@, [id |-> p.nextId, timestamp |-> timestamp])),
                   !.nextId = @ + 1,
                   !.done = [op |-> "insert", id |-> p.nextId, from |-> 0]]

\* the button marks the playback position
AddMarkerClick ==
    /\ player.nextId <= MaxMarkers
    /\ player' = insertMarker(player, player.currentTime)
    /\ UNCHANGED markersFrame

\* the double click marks the clicked position and, unless refused, seeks to it
SeekBarDblClick(timestamp) ==
    /\ player.nextId <= MaxMarkers
    /\ LET p == insertMarker(player, timestamp)
       IN player' = IF p.done.op = "rejected" THEN p ELSE [p EXCEPT !.currentTime = timestamp]
    /\ UNCHANGED markersFrame

\* currentSong.markers.map(m => m.timestamp), the argument of Api.saveMarkers
markerTimestamps(ms) == [i \in 1..Len(ms) |-> ms[i].timestamp]

deleteMarker(p, markerId) ==
    [p EXCEPT !.markers = SelectSeq(@, LAMBDA mk : mk.id # markerId),
              !.saves = Append(@, [op |-> "delete", originalMarkers |-> p.markers,
                                   carried |-> markerTimestamps(
                                        SelectSeq(p.markers, LAMBDA mk : mk.id # markerId))]),
              !.started = @ + 1,
              !.done = [op |-> "delete", id |-> markerId, from |-> markerIndex(p.markers, markerId)]]

DeleteMarker(markerId) ==
    /\ player.started < MaxSaves
    /\ player' = deleteMarker(player, markerId)
    /\ UNCHANGED markersFrame

updateMarkerTimestamp(p, markerId, newTimestamp) ==
    LET k == markerIndex(p.markers, markerId)
    IN [p EXCEPT !.markers = sortMarkers([@ EXCEPT ![k].timestamp = newTimestamp]),
                 !.saves = Append(@, [op |-> "update", originalMarkers |-> p.markers,
                                      carried |-> markerTimestamps(sortMarkers(
                                            [p.markers EXCEPT ![k].timestamp = newTimestamp]))]),
                 !.started = @ + 1,
                 !.done = [op |-> "update", id |-> markerId, from |-> k]]

DragMarker(markerId, newTimestamp) ==
    /\ player.started < MaxSaves
    /\ markerIndex(player.markers, markerId) # 0
    /\ player' = updateMarkerTimestamp(player, markerId, newTimestamp)
    /\ UNCHANGED markersFrame

\* Api.saveMarkers resolves: nothing but a toast; persisted is the list the
\* backend took with this call
SaveMarkersResolves(k) ==
    /\ k \in 1..Len(player.saves)
    /\ player' = [player EXCEPT !.saves = settled(@, k),
                                !.persisted = player.saves[k].carried,
                                !.done = [op |-> "saved", id |-> 0, from |-> 0]]
    /\ UNCHANGED markersFrame

\* Api.saveMarkers rejects: currentSong.markers = originalMarkers
SaveMarkersRejects(k) ==
    /\ k \in 1..Len(player.saves)
    /\ player' = [player EXCEPT !.markers = player.saves[k].originalMarkers,
                                !.saves = settled(@, k),
                                !.done = [op |-> "rollback", id |-> 0, from |-> 0]]
    /\ UNCHANGED markersFrame

NextMarkers ==
    \/ \E t \in Times : TimeUpdate(t)
    \/ AddMarkerClick
    \/ \E t \in Times : SeekBarDblClick(t)
    \/ \E id \in 1..MaxMarkers : DeleteMarker(id)
    \/ \E id \in 1..MaxMarkers, t \in Times : DragMarker(id, t)
    \/ \E k \in 1..MaxSaves : SaveMarkersResolves(k)
    \/ \E k \in 1..MaxSaves : SaveMarkersRejects(k)

SpecMarkers == InitMarkers /\ [][NextMarkers]_vars

\* Deletions and updates only, from two markers that are saved.
InitSavedMarkers ==
    /\ state = EmptyStore /\ NothingStarted
    /\ bus = Off /\ vl = Off /\ view = Off /\ sch = Off /\ app = Off
    /\ \E currentTime \in Times :
        player = [on |-> TRUE, currentTime |-> currentTime,
                  markers |-> <<[id |-> 1, timestamp |-> 0], [id |-> 2, timestamp |-> 3]>>,
                  nextId |-> 3, saves |-> <<>>, started |-> 0, persisted |-> <<0, 3>>,
                  done |-> NoMarkerOp]

NextSavedMarkers ==
    \/ \E id \in 1..MaxMarkers : DeleteMarker(id)
    \/ \E id \in 1..MaxMarkers, t \in Times : DragMarker(id, t)
    \/ \E k \in 1..MaxSaves : SaveMarkersResolves(k)
    \/ \E k \in 1..MaxSaves : SaveMarkersRejects(k)

SpecSavedMarkers == InitSavedMarkers /\ [][NextSavedMarkers]_vars

\* ---------------------------------------------------------------- play queue
\* player.js: playNextSong and playSongByIndex. The queue holds song objects,
\* known here by their paths; every song is in the cache and none is missing;
\* shuffling is off. The store the handlers start from is an input.

MaxLoads == 2

QueueInputs == {<<>>, <<"a">>, <<"c">>, <<"a", "c">>, <<"c", "a">>, <<"c", "b">>}
LoopModes == {"none", "playlist"}

NoPlay == [op |-> "none", head |-> NoPath, elsewhere |-> FALSE, started |-> NoPath, skipped |-> <<>>]

InitQueue ==
    /\ NothingStarted
    /\ \E active \in {"Default", "Work"}, queue \in QueueInputs, index \in {-1, 0} :
        state = [musicData |-> [Library EXCEPT !.songs = Paths, !.activePlaylist = active],
                 playQueue |-> queue, currentSongIndex |-> index, selectedSongPaths |-> <<>>,
                 lastClickedPath |-> NoPath, viewMode |-> "playlist"]
    /\ \E loopMode \in LoopModes :
        player = [on |-> TRUE, loopMode |-> loopMode, loading |-> <<>>, resume |-> NoPath,
                  last |-> NoPlay]
    /\ bus = Off /\ vl = Off /\ view = Off /\ sch = Off /\ app = Off

queueFrame == <<isUpdating, txs, ext, backend, late, confirms, ready, toast, last, txCount,
                extCount, bus, vl, view, sch, app>>

\* playSongByIndex up to `await Api.getSongDataUri`: the store after it, the
\* path whose data is awaited and the path of the song it took up.
playSongByIndex(s, src, index) ==
    LET ap == getActivePlaylist(s)
    IN  IF index + 1 \notin DOMAIN ap
        THEN [state |-> setCurrentSongIndex(s, -1), load |-> NoPath, started |-> NoPath]
        ELSE IF index = s.currentSongIndex /\ src # ""
        THEN [state |-> s, load |-> NoPath, started |-> ap[index + 1]]
        ELSE [state |-> setCurrentSongIndex(setLastClickedPath(setSelectedSongPaths(s,
                            <<ap[index + 1]>>), ap[index + 1]), index),
              load |-> ap[index + 1], started |-> ap[index + 1]]

\* s.path of an entry of musicData.playlists: the entries are path strings
entryPath(entry) == "undefined"

\* musicData.playlistOrder.find(pName => musicData.playlists[pName].some(s => s.path === path))
homePlaylist(md, path) ==
    LET found == {k \in 1..Len(md.playlistOrder) :
                    \E i \in 1..Len(md.playlists[md.playlistOrder[k]]) :
                        entryPath(md.playlists[md.playlistOrder[k]][i]) = path}
    IN  IF found = {} THEN "" ELSE md.playlistOrder[CHOOSE k \in found : \A j \in found : k <= j]

\* playNextSong, with the calls it makes to itself. `resume` is the song the
\* continuation of switchPlaylist(homePlaylist) would take up; skipped are the
\* queue entries dropped on the way.
RECURSIVE playNextSong(_, _, _, _, _)
playNextSong(s, src, loopMode, fromEnded, skipped) ==
    IF s.playQueue # <<>>
    THEN LET nextSongInQueue == Head(s.playQueue)
             s1 == setPlayQueue(s, Tail(s.playQueue))
             songIndex == IndexOf(getActivePlaylist(s1), nextSongInQueue) - 1
             home == homePlaylist(s.musicData, nextSongInQueue)
         IN  IF songIndex > -1
             THEN playSongByIndex(s1, src, songIndex) @@ [skipped |-> skipped, resume |-> NoPath]
             ELSE IF home # ""
             THEN [state |-> switchPlaylist(s1, home), load |-> NoPath, started |-> NoPath,
                   skipped |-> skipped, resume |-> nextSongInQueue]
             ELSE playNextSong(s1, src, loopMode, fromEnded, Append(skipped, nextSongInQueue))
    ELSE LET ap == getActivePlaylist(s)
             nextIndex == IF s.currentSongIndex + 1 >= Len(ap) THEN 0 ELSE s.currentSongIndex + 1
         IN  IF ap = <<>>
             THEN [state |-> s, load |-> NoPath, started |-> NoPath, skipped |-> skipped,
                   resume |-> NoPath]
             ELSE IF s.currentSongIndex + 1 >= Len(ap) /\ loopMode # "playlist" /\ fromEnded
             THEN [state |-> setCurrentSongIndex(s, -1), load |-> NoPath, started |-> NoPath,
                   skipped |-> skipped, resume |-> NoPath]
             ELSE playSongByIndex(s, src, nextIndex) @@ [skipped |-> skipped, resume |-> NoPath]

\* head of the queue is not in the active playlist but in some playlist
inAnotherPlaylist(s, path) ==
    /\ path \notin Range(getActivePlaylist(s))
    /\ \E n \in DOMAIN s.musicData.playlists : path \in Range(s.musicData.playlists[n])

\* The next button, the ended event of the audio element, or the command of
\* another window.
PlayNextSong(fromEnded) ==
    /\ Len(player.loading) < MaxLoads
    /\ LET r == playNextSong(state, audioSrc, player.loopMode, fromEnded, <<>>)
           head == IF state.playQueue = <<>> THEN NoPath ELSE Head(state.playQueue)
       IN  /\ state' = r.state
           /\ player' = [player EXCEPT
                    !.loading = IF r.load = NoPath THEN @ ELSE Append(@, r.load),
                    !.resume = r.resume,
                    !.last = [op |-> "playNextSong", head |-> head,
                              elsewhere |-> head # NoPath /\ inAnotherPlaylist(state, head),
                              started |-> r.started, skipped |-> r.skipped]]
    /\ UNCHANGED <<audioSrc, queueFrame>>

\* Api.getSongDataUri of the oldest waiting playSongByIndex call settles.
SongDataSettles(ok) ==
    /\ player.loading # <<>>
    /\ audioSrc' = IF ok THEN Head(player.loading) ELSE audioSrc
    /\ state' = IF ok THEN state ELSE setCurrentSongIndex(state, -1)
    /\ player' = [player EXCEPT !.loading = Tail(@), !.last = NoPlay]
    /\ UNCHANGED queueFrame

\* addSelectedToQueue with one row of the active playlist selected
AddSelectedToQueue(path) ==
    /\ path \in Range(getActivePlaylist(state))
    /\ Len(state.playQueue) < MaxQueue + 1
    /\ state' = setPlayQueue(setSelectedSongPaths(state, <<path>>), Append(state.playQueue, path))
    /\ player' = [player EXCEPT !.last = NoPlay]
    /\ UNCHANGED <<audioSrc, queueFrame>>

\* switchPlaylist by a click in the sidebar
QueueSwitchPlaylist(name) ==
    /\ name \in DOMAIN state.musicData.playlists
    /\ state.musicData.activePlaylist # name
    /\ state' = switchPlaylist(state, name)
    /\ audioSrc' = ""
    /\ player' = [player EXCEPT !.last = NoPlay]
    /\ UNCHANGED queueFrame

NextQueue ==
    \/ \E fromEnded \in BOOLEAN : PlayNextSong(fromEnded)
    \/ \E ok \in BOOLEAN : SongDataSettles(ok)
    \/ \E path \in Paths : AddSelectedToQueue(path)
    \/ \E name \in Names : QueueSwitchPlaylist(name)

SpecQueue == InitQueue /\ [][NextQueue]_vars

\* ---------------------------------------------------------------- auto-pause
\* main.js window.setExternalAudioState and player.js handleExternalAudioChange,
\* with a song loaded in the audio element. `due` and `clicked` are history:
\* playback was running when external audio became active, and the play/pause
\* button was clicked since.

MaxNotifications == 4

NoNotice == [op |-> "none", due |-> FALSE, clicked |-> FALSE]

\* what the backend reports: the applications heard, and whether any is
Payloads == {[isActive |-> FALSE, sources |-> {}],
             [isActive |-> TRUE, sources |-> {"browser"}],
             [isActive |-> TRUE, sources |-> {"browser", "game"}]}

InitAutoPause ==
    /\ state = EmptyStore /\ NothingStarted
    /\ \E enabled, paused \in BOOLEAN :
        player = [on |-> TRUE, autoPauseEnabled |-> enabled, paused |-> paused,
                  externalAudioSources |-> {}, isExternalAudioActive |-> FALSE,
                  wasPlayingBeforeExternalAudio |-> FALSE,
                  overridden |-> FALSE, due |-> FALSE, clicked |-> FALSE, notified |-> 0,
                  notice |-> NoNotice]
    /\ bus = Off /\ vl = Off /\ view = Off /\ sch = Off /\ app = Off

autoPauseFrame == <<state, txVars, bus, vl, view, sch, app>>

\* handleExternalAudioChange, the subscriber of 'isExternalAudioActive'
handleExternalAudioChange(p, isActive) ==
    IF isActive
    THEN [p EXCEPT !.wasPlayingBeforeExternalAudio = ~p.paused,
                   !.paused = TRUE,
                   !.overridden = TRUE]
    ELSE [p EXCEPT !.overridden = FALSE,
                   !.paused = IF p.wasPlayingBeforeExternalAudio THEN FALSE ELSE @,
                   !.wasPlayingBeforeExternalAudio = FALSE]

\* setIsExternalAudioActive: the write, then the publication, whatever the old value
setIsExternalAudioActive(p, isActive) ==
    handleExternalAudioChange([p EXCEPT !.isExternalAudioActive = isActive], isActive)

\* window.setExternalAudioState, called by the backend
SetExternalAudioState(payload) ==
    /\ player.notified < MaxNotifications
    /\ LET isActive == payload.isActive
           p == IF player.autoPauseEnabled
                THEN setIsExternalAudioActive(
                        [player EXCEPT !.externalAudioSources = payload.sources], isActive)
                ELSE player
           becameActive == isActive /\ ~player.isExternalAudioActive
       IN  player' = [p EXCEPT
                !.notified = @ + 1,
                !.due = IF ~player.autoPauseEnabled THEN FALSE
                        ELSE IF becameActive THEN ~player.paused
                        ELSE IF isActive THEN @ ELSE FALSE,
                !.clicked = IF isActive /\ ~becameActive THEN @ ELSE FALSE,
                !.notice = [op |-> IF isActive THEN "active" ELSE "inactive",
                            due |-> IF becameActive THEN ~player.paused ELSE player.due,
                            clicked |-> player.clicked]]
    /\ UNCHANGED autoPauseFrame

\* the play/pause button
PlayPauseClick ==
    /\ player' = [(IF player.autoPauseEnabled /\ player.isExternalAudioActive
                   THEN [player EXCEPT !.wasPlayingBeforeExternalAudio = ~@]
                   ELSE [player EXCEPT !.paused = ~@])
                  EXCEPT !.clicked = player.isExternalAudioActive, !.notice = NoNotice]
    /\ UNCHANGED autoPauseFrame

NextAutoPause ==
    \/ \E payload \in Payloads : SetExternalAudioState(payload)
    \/ PlayPauseClick

SpecAutoPause == InitAutoPause /\ [][NextAutoPause]_vars

\* ---------------------------------------------------------------- startup
\* main.js startApp and ui/splash.js. `wrote`, `before` and `failed` are
\* history of the current run: whether it wrote to the store, the store it
\* started from, and the steps of it that failed.

MaxRuns == 2

InitStartup ==
    /\ state = EmptyStore /\ NothingStarted
    /\ app = [on |-> TRUE, pc |-> "idle", splash |-> "status", retryShown |-> FALSE,
              settingsApplied |-> FALSE, wrote |-> FALSE, before |-> EmptyStore,
              failed |-> {}, runs |-> 0]
    /\ bus = Off /\ vl = Off /\ view = Off /\ sch = Off /\ player = Off

startupFrame == <<txVars, bus, vl, view, sch, player>>

\* Promise.all([Api.getInitialConfig(), Api.getInitialData()]) rejects
loadRejectsOnConfigOnly(configOk, dataOk) == ~configOk
loadRejects(configOk, dataOk) == ~configOk \/ ~dataOk

\* the catch block of startApp: showSplashError with the retry button
showSplashError(a) == [a EXCEPT !.splash = "error", !.retryShown = TRUE, !.pc = "idle"]

\* hideSplashScreen, at the end of the try block
hideSplashScreen(a) == [a EXCEPT !.splash = "hidden", !.pc = "done"]

\* the pywebviewready event, or a click on the retry button of the error screen
StartApp ==
    /\ app.pc = "idle"
    /\ app.runs < MaxRuns
    /\ app.runs = 0 \/ app.retryShown
    /\ app' = [app EXCEPT !.pc = "loading", !.splash = "status", !.wrote = FALSE,
                          !.before = state, !.failed = {}, !.runs = @ + 1]
    /\ UNCHANGED <<state, startupFrame>>

\* both initial calls have settled; hasLast: the configuration names a last
\* played song that is in its playlist
InitialLoadSettles(configOk, dataOk, hasLast) ==
    /\ app.pc = "loading"
    /\ LET a == [app EXCEPT !.failed = IF configOk /\ dataOk THEN @ ELSE @ \cup {"load"}]
       IN  IF loadRejects(configOk, dataOk)
           THEN /\ app' = showSplashError(a)
                /\ state' = state
           ELSE /\ state' = setMusicData(state, Library)
                /\ app' = [a EXCEPT !.settingsApplied = TRUE, !.wrote = TRUE,
                                    !.pc = IF hasLast THEN "restoring" ELSE "startupFile"]
    /\ UNCHANGED startupFrame

\* Api.getSongsByPaths for the last played song settles
LastSongDataSettles(outcome) ==
    /\ app.pc = "restoring"
    /\ CASE outcome = "ok" ->
                /\ state' = setActivePlaylist(addSongsToCache(state, {"c"}), "Work")
                /\ app' = [app EXCEPT !.pc = "playing"]
         [] outcome = "missing" ->
                /\ state' = state
                /\ app' = [app EXCEPT !.pc = "startupFile"]
         [] OTHER ->
                /\ state' = state
                /\ app' = showSplashError([app EXCEPT !.failed = @ \cup {"lastSong"}])
    /\ UNCHANGED startupFrame

\* the awaited playSongByIndex returns; a failure of Api.getSongDataUri is
\* caught inside it
RestoredPlaybackSettles(ok) ==
    /\ app.pc = "playing"
    /\ state' = setCurrentSongIndex(state, IF ok THEN 1 ELSE -1)
    /\ app' = [app EXCEPT !.pc = "startupFile",
                          !.failed = IF ok THEN @ ELSE @ \cup {"playback"}]
    /\ UNCHANGED startupFrame

\* Api.getStartupFile settles
StartupFileSettles(outcome) ==
    /\ app.pc = "startupFile"
    /\ app' = CASE outcome = "none" -> hideSplashScreen(app)
                [] outcome = "file" -> [app EXCEPT !.pc = "importing"]
                [] OTHER -> showSplashError([app EXCEPT !.failed = @ \cup {"startupFile"}])
    /\ UNCHANGED <<state, startupFrame>>

\* Api.importPlaylist settles: its failure is caught and reported by a toast
ImportSettles(ok) ==
    /\ app.pc = "importing"
    /\ app' = hideSplashScreen([app EXCEPT !.failed = IF ok THEN @ ELSE @ \cup {"import"}])
    /\ state' = IF ok /\ "Focus" \notin DOMAIN state.musicData.playlists
                THEN setMusicData(state, [state.musicData EXCEPT
                        !.playlists = With(@, "Focus", <<"a">>),
                        !.playlistOrder = Append(@, "Focus")])
                ELSE state
    /\ UNCHANGED startupFrame

NextStartup ==
    \/ StartApp
    \/ \E configOk, dataOk, hasLast \in BOOLEAN : InitialLoadSettles(configOk, dataOk, hasLast)
    \/ \E outcome \in {"ok", "missing", "error"} : LastSongDataSettles(outcome)
    \/ \E ok \in BOOLEAN : RestoredPlaybackSettles(ok)
    \/ \E outcome \in {"none", "file", "error"} : StartupFileSettles(outcome)
    \/ \E ok \in BOOLEAN : ImportSettles(ok)

SpecStartup == InitStartup /\ [][NextStartup]_vars

\* ---------------------------------------------------------------- confirmation dialog
\* ui/notifications.js showConfirmation and the deletePlaylist calls waiting
\* on it. Every call shows the one modal and adds its own listeners to the
\* two buttons and to the document; `confirms` holds the waiting calls in the
\* order of their listeners. view.ran is history: the names of the deletion
\* transactions that ran their optimistic action and started their remote call.

MaxDialogs == 3

InitConfirm ==
    /\ NothingStarted
    /\ state = [musicData |-> [Library EXCEPT !.playlists = With(@, "Focus", <<"a">>),
                                              !.playlistOrder = Append(@, "Focus")],
                playQueue |-> <<>>, currentSongIndex |-> -1, selectedSongPaths |-> <<>>,
                lastClickedPath |-> NoPath, viewMode |-> "playlist"]
    /\ view = [on |-> TRUE, confirmationVisible |-> FALSE, opened |-> 0, ran |-> <<>>,
               refused |-> 0]
    /\ bus = Off /\ vl = Off /\ sch = Off /\ player = Off /\ app = Off

confirmFrame == <<txs, ext, backend, late, toast, last, txCount, extCount, bus, vl, sch,
                  player, app>>

\* showConfirmation: the modal made visible, the listeners added
showConfirmation(v) == [v EXCEPT !.confirmationVisible = TRUE, !.opened = @ + 1]

\* cleanup: the modal hidden; the promise of the caller is resolved by the action
cleanup(v) == [v EXCEPT !.confirmationVisible = FALSE]

\* Delete in the context menu of a playlist: deletePlaylist up to its await
DeletePlaylistClick(name) ==
    /\ ready = <<>>
    /\ name \in DOMAIN state.musicData.playlists
    /\ name # "Default"
    /\ view.opened < MaxDialogs
    /\ confirms' = Append(confirms, [kind |-> "deletePlaylist", name |-> name, sel |-> <<>>])
    /\ view' = showConfirmation(view)
    /\ UNCHANGED <<state, audioSrc, isUpdating, ready, confirmFrame>>

\* a click on the OK button runs the onOk listener of every waiting call
OkClick ==
    /\ ready = <<>>
    /\ view.confirmationVisible
    /\ ready' = confirms
    /\ confirms' = <<>>
    /\ view' = cleanup(view)
    /\ UNCHANGED <<state, audioSrc, isUpdating, confirmFrame>>

\* a click on the Cancel button runs every onCancel listener: the callers return
CancelClick ==
    /\ ready = <<>>
    /\ view.confirmationVisible
    /\ confirms' = <<>>
    /\ view' = cleanup(view)
    /\ UNCHANGED <<state, audioSrc, isUpdating, ready, confirmFrame>>

\* Enter: the keydown listeners run in the order they were added; the first
\* hides the modal and resolves its call, the others find the modal hidden
EnterKey ==
    /\ ready = <<>>
    /\ view.confirmationVisible
    /\ ready' = <<Head(confirms)>>
    /\ confirms' = Tail(confirms)
    /\ view' = cleanup(view)
    /\ UNCHANGED <<state, audioSrc, isUpdating, confirmFrame>>

\* Escape: the same, with the first call returning
EscapeKey ==
    /\ ready = <<>>
    /\ view.confirmationVisible
    /\ confirms' = Tail(confirms)
    /\ view' = cleanup(view)
    /\ UNCHANGED <<state, audioSrc, isUpdating, ready, confirmFrame>>

\* deletePlaylist after `await UI.showConfirmation` gave true, up to the
\* await of the remote call inside performOptimisticUpdate
DeletePlaylistResumes ==
    /\ ready # <<>>
    /\ ready' = Tail(ready)
    /\ LET name == Head(ready).name
           wasPlayingInDeletedPlaylist == state.musicData.activePlaylist = name
       IN  IF isUpdating
           THEN /\ view' = [view EXCEPT !.refused = @ + 1]
                /\ UNCHANGED <<state, audioSrc, isUpdating>>
           ELSE /\ isUpdating' = TRUE
                /\ state' = DeletePlaylistAction(state, name, wasPlayingInDeletedPlaylist)
                /\ audioSrc' = IF wasPlayingInDeletedPlaylist THEN "" ELSE audioSrc
                /\ view' = [view EXCEPT !.ran = Append(@, name)]
    /\ UNCHANGED <<confirms, confirmFrame>>

\* the remote call settles; the catch block throws before the undo; finally
\* frees the lock
DeletionSettles ==
    /\ ready = <<>>
    /\ isUpdating
    /\ isUpdating' = FALSE
    /\ UNCHANGED <<state, audioSrc, confirms, ready, view, confirmFrame>>

NextConfirm ==
    \/ \E name \in Names : DeletePlaylistClick(name)
    \/ OkClick
    \/ CancelClick
    \/ EnterKey
    \/ EscapeKey
    \/ DeletePlaylistResumes
    \/ DeletionSettles

SpecConfirm == InitConfirm /\ [][NextConfirm]_vars

\* ------------------------------------------- undo closures, run twice
\* addPlaylistToState: the playlist an import returned goes into the store
\* without a transaction.
addPlaylistToState(s, playlistData) ==
    IF playlistData.name = "" THEN s
    ELSE LET md == s.musicData
         IN  setMusicData(s, [songs |-> md.songs \cup playlistData.songs,
                              playlists |-> With(md.playlists, playlistData.name, playlistData.paths),
                              playlistOrder |-> Append(md.playlistOrder, playlistData.name),
                              activePlaylist |-> md.activePlaylist])

\* Playlists an import returns: a new name, and a name the library has.
ImportedPlaylists ==
    { [name |-> "Focus", paths |-> <<"c">>, songs |-> {"c"}],
      [name |-> "Work", paths |-> <<"a">>, songs |-> {"a"}] }

\* The arguments an undo closure passes to the store's setters, read off the
\* fields these setters assign.
undoWrites(u, s) ==
    LET r == UndoApply(u, s)
    IN  CASE u.kind \in {"addSongs", "reorderSongs"} -> [playlists |-> r.musicData.playlists]
          [] u.kind = "moveSongs" -> [musicData |-> r.musicData, playQueue |-> r.playQueue]
          [] u.kind = "deleteSongs" ->
                [musicData |-> r.musicData, playQueue |-> r.playQueue,
                 currentSongIndex |-> r.currentSongIndex]
          [] u.kind = "create" ->
                [playlists |-> r.musicData.playlists, playlistOrder |-> r.musicData.playlistOrder]
          [] OTHER -> [playlists |-> r.musicData.playlists]

MaxWrites == 2
NoWrites == [on |-> FALSE]

\* The optimistic actions a store with a selection offers, each with the
\* undo closure it returns.
Transactions(s) ==
    LET name == s.musicData.activePlaylist
        sel == s.selectedSongPaths
        other == CHOOSE n \in DOMAIN s.musicData.playlists : n # name
    IN  { [undo |-> AddSongsUndo(s),
           after |-> AddSongsAction(s, songsToAddToPlaylist(s, <<"a", "c">>))],
          [undo |-> DeleteSongsUndo(s, sel),
           after |-> DeleteSongsAction(s, sel, playingSong(s) \in Range(sel))],
          [undo |-> ReorderSongsUndo(s, name),
           after |-> ReorderSongsAction(s, name,
                        ReorderedPaths(getActivePlaylist(s), sel, Len(getActivePlaylist(s))))],
          [undo |-> MoveSongsUndo(s), after |-> MoveSongsAction(s, name, other, sel)],
          [undo |-> CreateUndo(s), after |-> CreateAction(s, "Focus")] }

\* Two runs of one transaction from one store: `state` is the run in which
\* nothing happens between the optimistic action and the rollback, app.twin
\* the run in which non-transactional handlers write to the store meanwhile.
InitRollback ==
    /\ NothingStarted
    /\ bus = Off /\ vl = Off /\ view = Off /\ sch = Off /\ player = Off
    /\ \E active \in {"Default", "Work"}, queued \in BOOLEAN :
        LET md == [Library EXCEPT !.activePlaylist = active]
            s == [musicData |-> md,
                  playQueue |-> IF queued THEN <<md.playlists[active][2]>> ELSE <<>>,
                  currentSongIndex |-> 0,
                  selectedSongPaths |-> <<md.playlists[active][1]>>,
                  lastClickedPath |-> md.playlists[active][1], viewMode |-> "playlist"]
        IN  \E t \in Transactions(s) :
                /\ state = t.after
                /\ app = [on |-> TRUE, undo |-> t.undo, twin |-> t.after, writes |-> 0,
                          pc |-> "pending", written |-> NoWrites, twinWritten |-> NoWrites]

rollbackFrame == <<audioSrc, isUpdating, txs, ext, backend, late, confirms, ready, toast,
                   last, txCount, extCount, bus, vl, view, sch, player>>

Between(s) ==
    /\ app.pc = "pending"
    /\ app.writes < MaxWrites
    /\ app' = [app EXCEPT !.twin = s, !.writes = @ + 1]
    /\ UNCHANGED <<state, rollbackFrame>>

\* the import button's handler, after Api.importPlaylist has resolved
ImportBetween(playlistData) ==
    /\ playlistData.name # ""
    /\ Between(addPlaylistToState(app.twin, playlistData))

\* a click on another playlist of the sidebar
SwitchBetween(name) ==
    /\ name \in DOMAIN app.twin.musicData.playlists
    /\ name # app.twin.musicData.activePlaylist
    /\ Between(switchPlaylist(app.twin, name))

\* a fetch of song data fills the cache
CacheBetween(path) ==
    /\ path \in Range(getActivePlaylist(app.twin))
    /\ Between(addSongsToCache(app.twin, {path}))

\* undoAction() of the catch block, in both runs
Rollback ==
    /\ app.pc = "pending"
    /\ state' = UndoApply(app.undo, state)
    /\ app' = [app EXCEPT !.pc = "rolledBack", !.twin = UndoApply(app.undo, @),
                          !.written = undoWrites(app.undo, state),
                          !.twinWritten = undoWrites(app.undo, app.twin)]
    /\ UNCHANGED rollbackFrame

NextRollback ==
    \/ \E playlistData \in ImportedPlaylists : ImportBetween(playlistData)
    \/ \E name \in Names : SwitchBetween(name)
    \/ \E path \in Paths : CacheBetween(path)
    \/ Rollback

SpecRollback == InitRollback /\ [][NextRollback]_vars

\* ------------------------------------------------ overlapping list renders
\* renderSongList reads the search box and the modes, awaits the backend's
\* search where it needs one, and assigns vList.dataSource when it resumes.
\* A data source is described by the request it is the result for.
SearchTerms == {"", "a", "ab"}
MaxSearches == 3
NoRequest == [query |-> "", searchMode |-> "none", viewMode |-> "none"]

InitSearch ==
    /\ NothingStarted
    /\ state = setMusicData(EmptyStore, Library)
    /\ view = [on |-> TRUE, searchInput |-> "", searchMode |-> "filter",
               dataSource |-> NoRequest, requested |-> NoRequest, calls |-> <<>>,
               timer |-> FALSE, scheduled |-> "no", started |-> 0, failed |-> FALSE]
    /\ bus = Off /\ vl = Off /\ sch = Off /\ player = Off /\ app = Off

searchFrame == <<txVars, bus, vl, sch, player, app>>

\* whether renderSongList suspends at Api.searchAllSongs / Api.searchInPlaylist
awaitsSearch(request) ==
    /\ request.query # ""
    /\ request.searchMode = "global" \/ request.viewMode = "playlist"

\* renderSongList up to its await, or to its end when it has none
startRenderSongList(v, s, origin) ==
    LET request == [query |-> v.searchInput, searchMode |-> v.searchMode,
                    viewMode |-> s.viewMode]
        v1 == [v EXCEPT !.requested = request, !.started = @ + 1, !.failed = FALSE]
    IN  IF awaitsSearch(request)
        THEN [v1 EXCEPT !.calls = Append(@, [n |-> v1.started, request |-> request,
                                             origin |-> origin])]
        ELSE [v1 EXCEPT !.dataSource = request]

\* scheduleRender({ songList: true, ... }) of the store's subscribers
scheduleSongList(v) == IF v.scheduled = "no" THEN [v EXCEPT !.scheduled = "frame"] ELSE v

\* input event of the search box: handleAutocomplete re-arms the debounce
TypeQuery(q) ==
    /\ q # view.searchInput
    /\ view' = [view EXCEPT !.searchInput = q, !.timer = TRUE]
    /\ UNCHANGED <<state, searchFrame>>

\* the debounce timer calls renderSongList
SearchDebounceFires ==
    /\ view.timer
    /\ view.started < MaxSearches
    /\ view' = startRenderSongList([view EXCEPT !.timer = FALSE], state, "debounce")
    /\ UNCHANGED <<state, searchFrame>>

SearchModeClick ==
    /\ view' = scheduleSongList([view EXCEPT !.searchMode = IF @ = "filter" THEN "global"
                                                            ELSE "filter"])
    /\ UNCHANGED <<state, searchFrame>>

ViewModeClick ==
    /\ view.searchMode = "filter"
    /\ state' = setLastClickedPath(setSelectedSongPaths(
                    setViewMode(state, IF state.viewMode = "playlist" THEN "queue"
                                       ELSE "playlist"), <<>>), NoPath)
    /\ view' = scheduleSongList(view)
    /\ UNCHANGED searchFrame

\* performScheduledRenders with dirty.songList: `await UI.renderSongList()`,
\* then the reset of isRenderScheduled
RenderFrame ==
    /\ view.scheduled = "frame"
    /\ view.started < MaxSearches
    /\ LET v == startRenderSongList(view, state, "scheduler")
       IN  view' = [v EXCEPT !.scheduled = IF Len(v.calls) > Len(view.calls)
                                           THEN "running" ELSE "no"]
    /\ UNCHANGED <<state, searchFrame>>

\* a search resolves: its renderSongList call assigns vList.dataSource
SearchCallResolves(k) ==
    /\ k \in DOMAIN view.calls
    /\ view' = [view EXCEPT !.dataSource = view.calls[k].request,
                            !.calls = RemoveAt(@, k),
                            !.scheduled = IF view.calls[k].origin = "scheduler" THEN "no" ELSE @]
    /\ UNCHANGED <<state, searchFrame>>

\* a search fails: renderSongList rejects at its await; a scheduler callback
\* rejects with it and never resets isRenderScheduled
SearchCallFails(k) ==
    /\ k \in DOMAIN view.calls
    /\ view' = [view EXCEPT !.calls = RemoveAt(@, k),
                            !.failed = @ \/ view.calls[k].n = view.started,
                            !.scheduled = IF view.calls[k].origin = "scheduler" THEN "stuck" ELSE @]
    /\ UNCHANGED <<state, searchFrame>>

NextSearch ==
    \/ \E q \in SearchTerms : TypeQuery(q)
    \/ SearchDebounceFires
    \/ SearchModeClick
    \/ ViewModeClick
    \/ RenderFrame
    \/ \E k \in 1..MaxSearches : SearchCallResolves(k)
    \/ \E k \in 1..MaxSearches : SearchCallFails(k)

SpecSearch == InitSearch /\ [][NextSearch]_vars

\* ------------------------------------------------------------ missing songs
\* playSongByIndex and playNextSong call each other; each call is a step
\* here. The play queue is empty, shuffling is off and every song of the
\* playlist is in the cache; player.missing holds the songs whose file is
\* flagged missing.
SkipLibrary == [Library EXCEPT !.songs = Paths, !.playlists["Default"] = <<"a", "b", "c">>]

InitSkip ==
    /\ NothingStarted
    /\ state = [musicData |-> SkipLibrary, playQueue |-> <<>>, currentSongIndex |-> -1,
                selectedSongPaths |-> <<>>, lastClickedPath |-> NoPath, viewMode |-> "playlist"]
    /\ \E missing \in SUBSET Paths, loopMode \in {"none", "playlist"} :
        player = [on |-> TRUE, missing |-> missing, loopMode |-> loopMode, pc |-> "idle",
                  index |-> -1, fromEnded |-> FALSE, loading |-> <<>>]
    /\ bus = Off /\ vl = Off /\ view = Off /\ sch = Off /\ app = Off

skipFrame == <<isUpdating, txs, ext, backend, late, confirms, ready, toast, last, txCount,
               extCount, bus, vl, view, sch, app>>

isMissing(index) ==
    /\ index + 1 \in DOMAIN getActivePlaylist(state)
    /\ getActivePlaylist(state)[index + 1] \in player.missing

\* a double click on a row of the list
SongDblClick(index) ==
    /\ player.pc = "idle"
    /\ Len(player.loading) < MaxLoads
    /\ index + 1 \in DOMAIN getActivePlaylist(state)
    /\ player' = [player EXCEPT !.pc = "playSongByIndex", !.index = index]
    /\ UNCHANGED <<state, audioSrc, skipFrame>>

\* the next button (fromEnded = false) or the ended event of the audio element
NextOrEnded(fromEnded) ==
    /\ player.pc = "idle"
    /\ Len(player.loading) < MaxLoads
    /\ fromEnded => audioSrc # ""
    /\ player' = [player EXCEPT !.pc = "playNextSong", !.fromEnded = fromEnded]
    /\ UNCHANGED <<state, audioSrc, skipFrame>>

\* one call of playSongByIndex, to its return or to its await
PlaySongByIndexRuns ==
    /\ player.pc = "playSongByIndex"
    /\ IF isMissing(player.index)
       THEN /\ player' = [player EXCEPT !.pc = "playNextSong", !.fromEnded = TRUE]
            /\ UNCHANGED state
       ELSE LET r == playSongByIndex(state, audioSrc, player.index)
            IN  /\ state' = r.state
                /\ player' = [player EXCEPT !.pc = "idle",
                                 !.loading = IF r.load = NoPath THEN @ ELSE Append(@, r.load)]
    /\ UNCHANGED <<audioSrc, skipFrame>>

\* one call of playNextSong with the queue empty
PlayNextSongRuns ==
    /\ player.pc = "playNextSong"
    /\ LET currentPlaylist == getActivePlaylist(state)
           wraps == state.currentSongIndex + 1 >= Len(currentPlaylist)
           nextIndex == IF wraps THEN 0 ELSE state.currentSongIndex + 1
       IN  IF currentPlaylist = <<>>
           THEN /\ player' = [player EXCEPT !.pc = "idle"]
                /\ UNCHANGED state
           ELSE IF wraps /\ player.loopMode # "playlist" /\ player.fromEnded
           THEN /\ state' = setCurrentSongIndex(state, -1)
                /\ player' = [player EXCEPT !.pc = "idle"]
           ELSE /\ player' = [player EXCEPT !.pc = "playSongByIndex", !.index = nextIndex]
                /\ UNCHANGED state
    /\ UNCHANGED <<audioSrc, skipFrame>>

\* Api.getSongDataUri of a waiting playSongByIndex call settles
SkipSongDataSettles(ok) ==
    /\ player.pc = "idle"
    /\ player.loading # <<>>
    /\ audioSrc' = IF ok THEN Head(player.loading) ELSE audioSrc
    /\ state' = IF ok THEN state ELSE setCurrentSongIndex(state, -1)
    /\ player' = [player EXCEPT !.loading = Tail(@)]
    /\ UNCHANGED skipFrame

NextSkip ==
    \/ \E index \in 0..2 : SongDblClick(index)
    \/ \E fromEnded \in BOOLEAN : NextOrEnded(fromEnded)
    \/ PlaySongByIndexRuns
    \/ PlayNextSongRuns
    \/ \E ok \in BOOLEAN : SkipSongDataSettles(ok)

\* The two functions call each other synchronously: a call that has been
\* made runs.
SpecSkip ==
    InitSkip /\ [][NextSkip]_vars /\ WF_vars(PlaySongByIndexRuns) /\ WF_vars(PlayNextSongRuns)

\* --------------------------------------------------------- overlapping loads
\* playSongByIndex suspends at Api.getSongDataUri and switchPlaylist at
\* Api.saveActivePlaylist; the backend answers in any order. Every song is
\* in the cache, none is missing, the queue is empty. player.loading holds
\* the paths whose data URI is awaited, player.switches counts the
\* switchPlaylist calls that have not resumed.
InitLoads ==
    /\ NothingStarted
    /\ \E active \in {"Default", "Work"} :
        state = [musicData |-> [Library EXCEPT !.songs = Paths, !.activePlaylist = active],
                 playQueue |-> <<>>, currentSongIndex |-> -1, selectedSongPaths |-> <<>>,
                 lastClickedPath |-> NoPath, viewMode |-> "playlist"]
    /\ player = [on |-> TRUE, loading |-> <<>>, switches |-> 0, settled |-> "none"]
    /\ bus = Off /\ vl = Off /\ view = Off /\ sch = Off /\ app = Off

\* playSongByIndex(index) by a double click on a row
PlaySongByIndexCall(index) ==
    /\ Len(player.loading) < MaxLoads
    /\ index + 1 \in DOMAIN getActivePlaylist(state)
    /\ LET r == playSongByIndex(state, audioSrc, index)
       IN  /\ state' = r.state
           /\ player' = [player EXCEPT
                            !.loading = IF r.load = NoPath THEN @ ELSE Append(@, r.load),
                            !.settled = "none"]
    /\ UNCHANGED <<audioSrc, skipFrame>>

\* `audioPlayer.src = dataUri` of the call that awaited loading[k]
SongDataUriResolves(k) ==
    /\ k \in DOMAIN player.loading
    /\ audioSrc' = player.loading[k]
    /\ player' = [player EXCEPT !.loading = RemoveAt(@, k), !.settled = "loaded"]
    /\ UNCHANGED <<state, skipFrame>>

\* the catch block of the call that awaited loading[k]
SongDataUriRejects(k) ==
    /\ k \in DOMAIN player.loading
    /\ state' = setCurrentSongIndex(state, -1)
    /\ player' = [player EXCEPT !.loading = RemoveAt(@, k), !.settled = "failed"]
    /\ UNCHANGED <<audioSrc, skipFrame>>

\* switchPlaylist up to `await Api.saveActivePlaylist(name)`
SwitchPlaylistCall(name) ==
    /\ name \in DOMAIN state.musicData.playlists
    /\ state.musicData.activePlaylist # name
    /\ player.switches < MaxLoads
    /\ state' = switchPlaylist(state, name)
    /\ player' = [player EXCEPT !.switches = @ + 1, !.settled = "none"]
    /\ UNCHANGED <<audioSrc, skipFrame>>

\* switchPlaylist after the await, whether the save succeeded or failed
SwitchPlaylistResumes ==
    /\ player.switches > 0
    /\ audioSrc' = ""
    /\ player' = [player EXCEPT !.switches = @ - 1, !.settled = "switched"]
    /\ UNCHANGED <<state, skipFrame>>

NextLoads ==
    \/ \E index \in 0..1 : PlaySongByIndexCall(index)
    \/ \E k \in 1..MaxLoads : SongDataUriResolves(k)
    \/ \E k \in 1..MaxLoads : SongDataUriRejects(k)
    \/ \E name \in Names : SwitchPlaylistCall(name)
    \/ SwitchPlaylistResumes

SpecLoads == InitLoads /\ [][NextLoads]_vars

\* ---------------------------------------------------------- playlist import
\* The import button's handler: Api.importPlaylist, then addPlaylistToState
\* with the playlist of the response. The backend names the imported
\* playlist; the name is one its own data does not hold yet.
ImportPlaylistClick ==
    /\ ExtCall("importPlaylist")

backendImport(b, playlistData) ==
    [b EXCEPT !.playlists = With(@, playlistData.name, playlistData.paths),
              !.playlistOrder = Append(@, playlistData.name)]

ImportPlaylistResolves(playlistData) ==
    /\ ready = <<>>
    /\ ext.status = "pending" /\ ext.fn = "importPlaylist"
    /\ playlistData.name \notin DOMAIN backend.playlists
    /\ backend' = backendImport(backend, playlistData)
    /\ state' = addPlaylistToState(state, playlistData)
    /\ ext' = [ext EXCEPT !.status = "returned"]
    /\ last' = Quiet
    /\ toast' = "success: Playlist imported."
    /\ UNCHANGED <<audioSrc, isUpdating, txs, late, confirms, ready, txCount, extCount, others>>

NextImport ==
    \/ Next
    \/ ImportPlaylistClick
    \/ \E playlistData \in ImportedPlaylists : ImportPlaylistResolves(playlistData)

SpecImport == Init /\ [][NextImport]_vars

\* ---------------------------------------------------------- song reordering
\* handleSongReorderDrop and reorderSelectedSongsInList as functions of the
\* list, the selection and the drop position or the direction. The play
\* queue may hold a song more than once (addSelectedToQueue appends what is
\* selected); a playlist holds a path once. The entries of the queue are the
\* cache's song objects, so Array.indexOf finds the first entry of a song.
ReorderLists == {<<"a", "b">>, <<"a", "b", "c">>, <<"c", "a", "b">>, <<"a", "b", "a">>,
                 <<"b", "a", "c", "a">>, <<"a">>, <<"a", "a">>}
ReorderSelections == {{"a"}, {"b"}, {"a", "c"}, {"b", "c"}, {"a", "b", "c"}}
RawTargets == {-1, 0, 1, 2, 3, 5}

NoDuplicates(s) == \A i, j \in DOMAIN s : s[i] = s[j] => i = j
AsSequence(S) == Keep(<<"a", "b", "c">>, S)

\* dataSource.indexOf(item), 0-based, -1 when absent
indexOf(s, x) == IndexOf(s, x) - 1

reorderSelectedSongsInList(dataSource, selected, direction) ==
    LET songsToMove == Keep(dataSource, selected)
        remainingItems == Drop(dataSource, selected)
        originalIndices == {indexOf(dataSource, songsToMove[i]) : i \in DOMAIN songsToMove}
        firstIndex == CHOOSE i \in originalIndices : \A j \in originalIndices : i <= j
        lastIndex == CHOOSE i \in originalIndices : \A j \in originalIndices : i >= j
    IN  IF Len(dataSource) < 2 \/ songsToMove = <<>> THEN dataSource
        ELSE IF direction = "up" /\ firstIndex = 0 THEN dataSource
        ELSE IF direction = "down" /\ lastIndex = Len(dataSource) - 1 THEN dataSource
        ELSE LET insertionIndex ==
                    IF direction = "up"
                    THEN indexOf(remainingItems, dataSource[firstIndex])
                    ELSE indexOf(remainingItems, dataSource[lastIndex + 2]) + 1
             IN  Splice(remainingItems, insertionIndex, songsToMove)

NoReorder == [op |-> "none", original |-> <<>>, selected |-> {}]

InitReorder ==
    /\ NothingStarted
    /\ state = EmptyStore
    /\ \E list \in ReorderLists, selected \in ReorderSelections, viewMode \in {"queue", "playlist"} :
        /\ viewMode = "playlist" => NoDuplicates(list)
        /\ view = [on |-> TRUE, viewMode |-> viewMode, list |-> list, selected |-> selected,
                   done |-> NoReorder]
    /\ bus = Off /\ vl = Off /\ sch = Off /\ player = Off /\ app = Off

\* a click or ctrl-click selection of rows of the list
SelectRows(selected) ==
    /\ selected # view.selected
    /\ selected \cap Range(view.list) # {}
    /\ view' = [view EXCEPT !.selected = selected, !.done = NoReorder]
    /\ UNCHANGED <<state, searchFrame>>

\* the drop of the dragged selection at a row boundary
DropSelection(rawTarget) ==
    /\ view.selected # {}
    /\ view' = [view EXCEPT
                    !.list = ReorderedPaths(view.list, AsSequence(view.selected), rawTarget),
                    !.done = [op |-> "drop", original |-> view.list, selected |-> view.selected]]
    /\ UNCHANGED <<state, searchFrame>>

\* Ctrl+ArrowUp / Ctrl+ArrowDown
MoveSelection(direction) ==
    /\ view.selected # {}
    /\ view' = [view EXCEPT
                    !.list = reorderSelectedSongsInList(view.list, view.selected, direction),
                    !.done = [op |-> direction, original |-> view.list, selected |-> view.selected]]
    /\ UNCHANGED <<state, searchFrame>>

NextReorder ==
    \/ \E selected \in ReorderSelections : SelectRows(selected)
    \/ \E rawTarget \in RawTargets : DropSelection(rawTarget)
    \/ \E direction \in {"up", "down"} : MoveSelection(direction)

SpecReorder == InitReorder /\ [][NextReorder]_vars

\* ------------------------------------------------- frames of the scroll listener
\* The scroll listener with room for a second callback: it asks for a frame
\* whenever isRenderScheduled is false.
MaxPendingFrames == 2

ScrollListener(top) ==
    /\ top <= MaxScrollTop(vl)
    /\ top # vl.scrollTop
    /\ ~vl.isRenderScheduled => vl.frames < MaxPendingFrames
    /\ vl' = [Unmarked(vl) EXCEPT !.scrollTop = top,
                                  !.isRenderScheduled = TRUE,
                                  !.frames = IF vl.isRenderScheduled THEN @ ELSE @ + 1,
                                  !.quiet = FALSE]
    /\ UNCHANGED <<state, listFrame>>

NextFrames ==
    \/ \E top \in ScrollTops : ScrollListener(top)
    \/ Frame
    \/ \E ds \in ShortSources : RenderSongList(ds)
    \/ DebounceFires
    \/ \E k \in 1..Len(vl.batches), omitted \in {{}, UnknownPaths} : BatchResolves(k, omitted)
    \/ \E k \in 1..Len(vl.batches) : BatchFails(k)

SpecFrames == InitList /\ [][NextFrames]_vars

\* ---------------------------------------------------------------- claims
\* The store fields an optimistic action can write.
FieldNames ==
    {"playlists", "playlistOrder", "activePlaylist", "songs", "playQueue",
     "currentSongIndex", "selectedSongPaths", "lastClickedPath", "viewMode"}
Field(s, f) ==
    CASE f = "playlists" -> s.musicData.playlists
      [] f = "playlistOrder" -> s.musicData.playlistOrder
      [] f = "activePlaylist" -> s.musicData.activePlaylist
      [] f = "songs" -> s.musicData.songs
      [] f = "playQueue" -> s.playQueue
      [] f = "currentSongIndex" -> s.currentSongIndex
      [] f = "selectedSongPaths" -> s.selectedSongPaths
      [] f = "lastClickedPath" -> s.lastClickedPath
      [] f = "viewMode" -> s.viewMode

\* Every field that differs between pre and act has in s the value it has in pre.
RolledBack(pre, act, s) ==
    \A f \in FieldNames : Field(act, f) # Field(pre, f) => Field(s, f) = Field(pre, f)

Completed == last.outcome \in {"success", "failure"}
Failed == last.outcome = "failure"

\* C1: when the apiCall of a transaction throws or rejects, the undo closure
\* is invoked exactly once before performOptimisticUpdate completes.
C1_UndoOnceOnFailure == Failed => last.undoCalls = 1

\* C1, the divergence: a transaction has completed on the failure path and
\* its undo closure was never called.
C1_FailedWithoutUndo == Failed /\ last.undoCalls = 0 /\ last.act # last.pre

\* C2: rollback completeness.  After a transaction of any kind whose remote
\* call failed has completed, every store field its optimistic action wrote
\* has the value it had immediately before the transaction began.
C2_RollbackComplete == Failed => RolledBack(last.pre, last.act, state)

\* C2, the divergence inside the undo closures: a transaction is in flight
\* whose undo closure, were it called now, would leave a written field
\* different from its value before the transaction.
C2_UndoClosureIncomplete ==
    \E i \in DOMAIN txs :
        /\ state = txs[i].act
        /\ ~RolledBack(txs[i].pre, txs[i].act, UndoApply(txs[i].undo, state))

\* C3: mutex exclusivity.  At most one optimistic transaction is in flight in
\* every reachable state, and a performOptimisticUpdate call made while one
\* is in flight returns without running its optimisticAction or its apiCall
\* and without changing any store field.
C3_MutexExclusivity ==
    /\ [](Len(txs) <= 1)
    /\ [][last'.kind = "refused" =>
            /\ txs # <<>>
            /\ state' = state
            /\ audioSrc' = audioSrc
            /\ txs' = txs
            /\ backend' = backend
            /\ isUpdating' = isUpdating]_vars

\* C3, its case: a call was refused while a transaction was in flight.
C3_RefusedWhileInFlight == last.kind = "refused" /\ Len(txs) = 1 /\ toast = PleaseWait

C5_RenameScenario ==
    ( /\ Failed
      /\ last.kind = "rename"
      /\ last.how = "reject"
      /\ "Work" \in DOMAIN last.pre.musicData.playlists
      /\ "Focus" \in DOMAIN last.act.musicData.playlists )
    => /\ "Work" \in DOMAIN state.musicData.playlists
       /\ "Focus" \notin DOMAIN state.musicData.playlists
       /\ state.musicData.playlistOrder = last.pre.musicData.playlistOrder
       /\ state.musicData.activePlaylist = last.pre.musicData.activePlaylist
       /\ last.errorToast

\* C5, the divergence: the rejected rename has completed and the store still
\* holds "Focus", with no error toast.
C5_FocusKept ==
    /\ Failed
    /\ last.kind = "rename"
    /\ last.how = "reject"
    /\ "Focus" \in DOMAIN state.musicData.playlists
    /\ "Work" \notin DOMAIN state.musicData.playlists
    /\ ~last.errorToast

\* C6: when the apiCall of a transaction resolves, the undo closure is never
\* invoked and the state written by optimisticAction is still in the store
\* when performOptimisticUpdate completes.
C6_SuccessKeepsAction ==
    last.outcome = "success" => last.undoCalls = 0 /\ last.post = last.act /\ state = last.act

\* C6, its case: a transaction that changed the store has succeeded.
C6_SucceededWithChange == last.outcome = "success" /\ last.act # last.pre /\ state = last.act

\* C7: after a transaction whose remote call failed (rejection, error-tagged
\* payload or gateway timeout) has completed, the local playlist data equals
\* the backend's playlist data.
C7_LocalEqualsBackend == Failed /\ last.synced => LocalData(state) = backend

\* C7, the divergence: local and backend data agreed when the transaction
\* began and differ when it has failed.
C7_LocalDiffers == Failed /\ last.synced /\ LocalData(state) # backend

\* C8: an error-tagged payload is treated as a rejection: the gateway throws,
\* the caller never receives the payload, no success notification runs and
\* the undo closure is invoked.
C8_ErrorPayloadIsFailure ==
    Completed /\ last.how = "error" =>
        /\ last.result = "thrown"
        /\ last.outcome = "failure"
        /\ ~last.successToast
        /\ last.undoCalls = 1

\* C8, the divergence: the gateway threw for the error-tagged payload and the
\* transaction ended without calling its undo closure.
C8_ThrownWithoutUndo ==
    Completed /\ last.how = "error" /\ last.result = "thrown" /\ last.undoCalls = 0

\* C9: a bounded gateway call that has not settled within the timeout rejects
\* with the "operation timed out" error: the call of a transaction is never
\* pending a whole clock step past its deadline, and the timeout reaches the
\* caller as a thrown error with that message.  The result of a backend call
\* that ends after its timeout reaches no caller and changes no store field.
C9_TimeoutAndLateResult ==
    /\ [](\A i \in DOMAIN txs : txs[i].elapsed - TickMs < API_TIMEOUT_MS)
    /\ [](Completed /\ last.how = "timeout" =>
            last.result = "thrown" /\ last.message = TimedOut /\ last.outcome = "failure")
    /\ [][last'.kind = "late" =>
            /\ state' = state
            /\ audioSrc' = audioSrc
            /\ txs' = txs
            /\ ext' = ext
            /\ toast' = ""
            /\ isUpdating' = isUpdating]_vars

\* C9, its case: a backend call has ended after the gateway timed it out and
\* the transaction that made it had already failed.
C9_LateResultAfterTimeout ==
    last.kind = "late" /\ late = {} /\ txs = <<>> /\ txCount > 0

\* C10: a call of an allow-listed wrapper is never rejected by the gateway
\* timeout.
C10_AllowListedNeverTimesOut ==
    ext.fn \in AllowListed => ~(ext.status = "thrown" /\ ext.message = TimedOut)

\* C10, the divergence: importFromFiles was rejected by the timeout.
C10_ImportTimedOut ==
    ext.fn = "importFromFiles" /\ ext.status = "thrown" /\ ext.message = TimedOut

\* What the subscriber list of the event just published holds.
Subscribed == IF bus.set.event \in DOMAIN bus.subscribers THEN bus.subscribers[bus.set.event] ELSE <<>>

\* C11: a setter call invokes all callbacks subscribed to its event, before
\* it returns, in the order they were registered, each with the new value,
\* and no callback subscribed to another event.
C11_PublishAllInOrder ==
    bus.set.event # "" =>
        bus.calls = [i \in DOMAIN Subscribed |->
                        [event |-> bus.set.event, cb |-> Subscribed[i].id, data |-> bus.set.value]]

\* C11, the divergence: a setter call has ended and a callback subscribed to
\* its event was not invoked.
C11_SubscriberSkipped == bus.set.event # "" /\ Len(bus.calls) < Len(Subscribed)

\* C12: if one callback subscribed to an event throws, every other callback
\* subscribed to the same event is still invoked for that publish.
C12_ThrowDoesNotStopOthers ==
    bus.set.threw =>
        \A i \in DOMAIN Subscribed : \E k \in DOMAIN bus.calls : bus.calls[k].cb = Subscribed[i].id

\* C12, the divergence: the first callback threw and the second, which does
\* not throw, was never invoked.
C12_SecondNeverInvoked ==
    /\ bus.set.threw
    /\ Len(Subscribed) = 2
    /\ Subscribed[1].throws /\ ~Subscribed[2].throws
    /\ \A k \in DOMAIN bus.calls : bus.calls[k].cb # Subscribed[2].id

\* The active playlist shows path p hydrated wherever it holds p.
Hydrated(s, p) ==
    \A i \in DOMAIN activePlaylistSongs(s) :
        activePlaylistSongs(s)[i].path = p => ~activePlaylistSongs(s)[i].isPlaceholder

\* C13: cache coherence.  The getActivePlaylist call that follows an
\* addSongsToCache merging path p, and every later one while p is in the
\* cache, returns the hydrated song at every position of the active playlist
\* that holds p, whichever playlist is active.
C13_CacheCoherence ==
    /\ last.kind = "addSongsToCache" => \A p \in last.paths : Hydrated(state, p)
    /\ \A p \in state.musicData.songs : Hydrated(state, p)

\* C13, its case: "c", a placeholder until now, has just been merged and the
\* active playlist, which holds it, returns it hydrated.
C13_MergedShownHydrated ==
    /\ last.kind = "addSongsToCache"
    /\ last.paths = {"c"}
    /\ activePlaylistSongs(state) = <<[path |-> "b", isPlaceholder |-> FALSE],
                                      [path |-> "c", isPlaceholder |-> FALSE]>>

\* The pool nodes that are not hidden, and the rows they stand at.
Shown(v) == {k \in DOMAIN v.visibleNodes : ~v.visibleNodes[k].hidden}
ShownAt(v, i) == {k \in Shown(v) : v.visibleNodes[k].y = i * ITEM_HEIGHT}

\* C14: after each render pass the nodes that are not hidden stand for exactly
\* the rows max(0, start - buffer) .. min(len - 1, end + buffer), where
\* start = floor(scrollTop / rowHeight) and end = start + ceil(height /
\* rowHeight): each row of the range has exactly one node, placed at
\* row * rowHeight and carrying the row's path, and every other node is hidden.
C14_WindowCoverage ==
    vl.rendered =>
        LET start == vl.scrollTop \div ITEM_HEIGHT
            end == start + (vl.clientHeight + ITEM_HEIGHT - 1) \div ITEM_HEIGHT
            lo == IF start - BUFFER_ITEMS > 0 THEN start - BUFFER_ITEMS ELSE 0
            hi == IF end + BUFFER_ITEMS < vl.dataSource.len - 1
                  THEN end + BUFFER_ITEMS ELSE vl.dataSource.len - 1
        IN  /\ \A i \in lo..hi : Cardinality(ShownAt(vl, i)) = 1
            /\ \A k \in Shown(vl) :
                \E i \in lo..hi :
                    /\ vl.visibleNodes[k].y = i * ITEM_HEIGHT
                    /\ vl.visibleNodes[k].path = PathAt(vl.dataSource, i)

\* C14 witness: a pass over a three-row data source after the pool had grown
\* for a longer one: three nodes shown, the others hidden.
C14_ShortListInGrownPool ==
    /\ vl.rendered
    /\ vl.dataSource.len = 3
    /\ Len(vl.visibleNodes) > 3
    /\ Cardinality(Shown(vl)) = 3

\* The 10,000-row data source in a 460px viewport, rendered with row 10 as the
\* first visible row.
WindowScenario ==
    /\ vl.rendered
    /\ vl.dataSource.len = 10000
    /\ vl.clientHeight = 460
    /\ vl.scrollTop \div ITEM_HEIGHT = 10
ShownRows(v) == {v.visibleNodes[k].y \div ITEM_HEIGHT : k \in Shown(v)}

\* C15 (amended): in the window scenario the rendered window is exactly rows
\* 5 to 25.
C15_WindowRows5To25 == WindowScenario => ShownRows(vl) = 5..25

\* C15 as stated: in the window scenario the rendered window is exactly rows
\* 5 to 20.
C15_WindowRows5To20 == WindowScenario => ShownRows(vl) = 5..20

\* C15 witness: the scenario has been rendered.
C15_ScrolledToRow10 == WindowScenario /\ Cardinality(Shown(vl)) = 21

\* C16: no batch is issued with a path of an earlier batch that has not
\* settled: the batches in flight never share a path.
C16_NoDuplicateFetch ==
    /\ \A i, j \in DOMAIN vl.batches : i < j => vl.batches[i] \cap vl.batches[j] = {}
    /\ vl.issued # {} =>
        \A k \in 1..(Len(vl.batches) - 1) : vl.issued \cap vl.batches[k] = {}

\* C16 witness: render passes asked again for paths of a batch in flight, and
\* the batch issued next to it holds none of them.
C16_RequestedWhileInFlight ==
    /\ Len(vl.batches) = 2
    /\ vl.issued = vl.batches[2]
    /\ vl.requested \cap vl.batches[1] # {}

\* C17: once a batch has settled with the engine otherwise at rest, no
\* further fetch is issued until a scroll or a change of data source.
C17_NoFetchAfterSettling == vl.quiet => vl.issued = {}

\* The five views, and those of them that are visible.
VisibleViews(v) ==
    {w \in {"Library is Empty", "No Results Found", "Global Search"} :
        ~v.playlistEmptyStateHidden /\ v.emptyStateTitle = w}
    \cup (IF v.queueEmptyStateHidden THEN {} ELSE {"queue-empty"})
    \cup (IF v.songListHidden THEN {} ELSE {"song list"})

\* C18: after every renderSongList exactly one of the five views is visible.
C18_ExactlyOneView == view.rendered => Cardinality(VisibleViews(view)) = 1

\* The callbacks of the scheduler that are waiting for their frame or running.
Callbacks(s) == s.frames + (IF s.pc = "idle" THEN 0 ELSE 1)

\* C19: between two frame callbacks any number of scheduleRender calls leaves
\* exactly one callback scheduled, and within one callback each update runs
\* at most once, the full rebuild of the song list replacing its style
\* refresh.
C19_OneCallbackOneUpdateEach ==
    /\ Callbacks(sch) <= 1
    /\ (sch.called /\ sch.pc = "idle") => sch.frames = 1
    /\ \A i, j \in DOMAIN sch.ran : i # j => sch.ran[i] # sch.ran[j]
    /\ ~({"songList", "songListStyles"} \subseteq Range(sch.ran))

\* C20: a flag passed to scheduleRender is not lost: until its update is
\* performed the flag stays set and a callback is scheduled or running.
C20_NoFlagLost ==
    sch.owed # {} => (sch.owed \subseteq sch.dirty /\ Callbacks(sch) > 0)

\* C21: whenever a frame callback has run to its end, whatever the outcome
\* of its render steps, isRenderScheduled and all flags are cleared, so that
\* the next scheduleRender call schedules a frame.
C21_ClearedAfterCallback ==
    [][ ((sch'.frames < sch.frames \/ sch.pc # "idle") /\ sch'.pc = "idle")
            => (~sch'.isRenderScheduled /\ sch'.dirty = {}) ]_vars

\* C22: in every reachable state the playlist map holds "Default" and the
\* active playlist name is a key of the playlist map.
C22_DefaultKeptActiveBound ==
    /\ "Default" \in DOMAIN state.musicData.playlists
    /\ state.musicData.activePlaylist \in DOMAIN state.musicData.playlists

\* The paths a completed deleteSelectedSongs transaction deleted: the
\* selection, and the songs whose cache entries its action backed up.
DeletedPaths == Range(last.pre.selectedSongPaths) \cup last.undo.deleted

\* C23: after deleteSelectedSongs has been confirmed and its remote call has
\* succeeded, every deleted path is absent from the song cache and from
\* every playlist.
C23_DeletedPathsGone ==
    (Completed /\ last.kind = "deleteSongs" /\ last.outcome = "success") =>
        \A p \in DeletedPaths :
            /\ p \notin state.musicData.songs
            /\ \A n \in DOMAIN state.musicData.playlists : p \notin Range(state.musicData.playlists[n])

\* C24: after every marker insertion (button or seek bar double click), every
\* timestamp update by a drag, every deletion and every rollback of these, the
\* marker list of the current song is sorted ascending by timestamp.
C24_MarkersSorted == "markers" \in DOMAIN player => isSorted(player.markers)

\* a drag has moved a marker past another one, and the list was put in order again
C24_DragChangedOrder ==
    /\ "markers" \in DOMAIN player
    /\ player.done.op = "update"
    /\ Len(player.markers) > 1
    /\ markerIndex(player.markers, player.done.id) # player.done.from

\* C25: after any marker insert, update or delete no two markers of a song are
\* closer together than the minimum spacing of 0.5 s; an insertion within the
\* minimum spacing of an existing marker is rejected and changes nothing.
C25_MinimumSpacing ==
    "markers" \in DOMAIN player =>
        \A i, j \in 1..Len(player.markers) :
            i # j => ~tooClose(player.markers[i].timestamp, player.markers[j].timestamp)

C27_PausedThenResumed ==
    ("notice" \in DOMAIN player /\ player.autoPauseEnabled /\ player.notice.due
        /\ ~player.notice.clicked) =>
            /\ player.notice.op = "active" => player.paused
            /\ player.notice.op = "inactive" => ~player.paused

\* a failed initial load leaves the store as the run found it and the splash
\* screen on its error view with the retry button
FatalLoadHalts ==
    "load" \in app.failed =>
        /\ ~app.wrote /\ state = app.before
        /\ app.splash = "error" /\ app.retryShown

\* C28 as stated: if the initial configuration load or the initial data load
\* fails, startApp writes nothing to the store and the splash screen stays
\* shown with the error and the retry control; the splash screen is hidden
\* only by a run of startApp in which every step succeeded.
C28_HiddenOnlyAfterFlawlessRun ==
    "splash" \in DOMAIN app =>
        /\ FatalLoadHalts
        /\ app.splash = "hidden" => app.failed = {}

\* C28, amended: as above, but the splash screen is hidden only by a run in
\* which the initial loads, the fetch of the last played song's data and the
\* startup file query succeeded; a failed restore of playback or a failed
\* import of the startup playlist is reported and does not stop the run.
C28_HiddenOnlyAfterLoadsSucceeded ==
    "splash" \in DOMAIN app =>
        /\ FatalLoadHalts
        /\ app.splash = "hidden" => app.failed \subseteq {"playback", "import"}

\* a retry whose initial load failed again, after a run that had written the store
C28_RetryFailedOnLoad ==
    /\ "splash" \in DOMAIN app
    /\ "load" \in app.failed
    /\ app.runs > 1
    /\ app.settingsApplied

\* C29: 'delete playlist' triggered twice for the same playlist while the
\* first deletion is pending: exactly one deletion transaction runs its
\* optimistic action and its remote call; the second never fires its action
\* or is rejected by the mutex. A second trigger is possible only while the
\* playlist is still there, so no name is deleted by two transactions.
C29_OneDeletionPerPlaylist ==
    "ran" \in DOMAIN view =>
        \A i, j \in 1..Len(view.ran) : view.ran[i] = view.ran[j] => i = j

\* C30: a batch that settles, with songs or with an error, takes all of its
\* paths out of the in-flight set: the set holds the paths of the batches
\* outstanding and nothing else, so it is empty whenever none is outstanding
\* and a path still without data can be requested again by a later render pass.
C30_InFlightIsOutstanding ==
    /\ vl.pathsCurrentlyFetching = UNION Range(vl.batches)
    /\ vl.batches = <<>> => vl.pathsCurrentlyFetching = {}

\* C30 witness: after a batch settled with nothing else going on, a path still
\* without data is in flight again, alone
C30_RequestedAgain ==
    /\ vl.quiet
    /\ vl.issued # {}
    /\ vl.batches = <<vl.issued>>
    /\ vl.issued \cap state.musicData.songs = {}

\* C31: the songs a download or import completion callback hands to
\* addSongsToActivePlaylist that are not yet in the active playlist end up in
\* the song cache and in the active playlist, also when the callback arrives
\* while another optimistic transaction is in flight.
C31_DeliveredSongsAdded ==
    [][ \A songObjects \in SongLists :
            AddSongsToActivePlaylist(songObjects) =>
                LET delivered == Range(songsToAddToPlaylist(state, songObjects))
                IN  /\ delivered \subseteq state'.musicData.songs
                    /\ delivered \subseteq Range(getActivePlaylist(state')) ]_vars

\* C32: once every outstanding saveMarkers call of a song has settled, the
\* local list of marker timestamps equals the list carried by the last
\* saveMarkers call the backend accepted, whatever the interleaving of
\* deletions and updates and whichever of their calls fail.
C32_MarkersConverge ==
    ("persisted" \in DOMAIN player /\ player.saves = <<>>) =>
        markerTimestamps(player.markers) = player.persisted

C34_LatestQueryWins ==
    ("calls" \in DOMAIN view /\ view.calls = <<>> /\ view.started > 0 /\ ~view.failed) =>
        view.dataSource = view.requested

\* C35: a playSongByIndex call for a song flagged missing (empty queue,
\* shuffling off) comes to an end: the chain of calls it starts returns after
\* finitely many calls instead of selecting the same missing index again and
\* again.
C35_SkipTerminates ==
    ("pc" \in DOMAIN player /\ player.pc = "playSongByIndex" /\ isMissing(player.index))
        ~> ("pc" \in DOMAIN player /\ player.pc = "idle")

\* C36: whenever no getSongDataUri call is pending (and no switchPlaylist
\* call is suspended), the audio element's source is the one of the song at
\* currentSongIndex, and it is empty when currentSongIndex is -1.
C36_SourceMatchesIndex ==
    ("switches" \in DOMAIN player /\ player.loading = <<>> /\ player.switches = 0) =>
        audioSrc = IF state.currentSongIndex = -1 THEN ""
                   ELSE getActivePlaylist(state)[state.currentSongIndex + 1]

\* currentSongIndex is -1, or it is an index of the active playlist whose
\* entry is the song loaded in the audio element (when one is loaded).
IndexConsistent(s, src) ==
    LET activePlaylist == getActivePlaylist(s)
        i == s.currentSongIndex
    IN  \/ i = -1
        \/ /\ i + 1 \in DOMAIN activePlaylist
           /\ src # "" => activePlaylist[i + 1] = src

SongKinds == {"addSongs", "reorderSongs", "moveSongs", "deleteSongs"}

\* The step is the optimistic action of a transaction on the songs of a
\* playlist, or the end of such a transaction (with or without rollback).
SongTransactionStep ==
    \/ Len(txs') > Len(txs) /\ txs'[Len(txs')].kind \in SongKinds
    \/ Len(txs') < Len(txs) /\ last'.kind \in SongKinds

\* C37: a transaction that changes the songs of a playlist (add, reorder,
\* move to another playlist, delete), and its rollback, leave
\* currentSongIndex at -1 or at a valid index of the active playlist whose
\* entry is the loaded song.
C37_IndexFollowsSongs ==
    [][ (IndexConsistent(state, audioSrc) /\ SongTransactionStep) =>
            IndexConsistent(state', audioSrc') ]_vars

\* C38: between operations playlistOrder has no duplicate and its names are
\* the keys of the playlist map, whatever transactions, rollbacks and
\* playlist imports (addPlaylistToState) have run.
C38_OrderMatchesPlaylists ==
    LET md == state.musicData
    IN  /\ \A i, j \in DOMAIN md.playlistOrder : md.playlistOrder[i] = md.playlistOrder[j] => i = j
        /\ Range(md.playlistOrder) = DOMAIN md.playlists

\* The selected entries of a list stand next to each other.
Contiguous(list, selected) ==
    \A i, j, k \in DOMAIN list :
        (i < j /\ j < k /\ list[i] \in selected /\ list[k] \in selected) => list[j] \in selected

\* C39: a song reorder (drop at any position, keyboard up or down) yields a
\* permutation of the list: the unselected songs keep their order, the
\* selected songs keep theirs and stand in one block; a move up with the
\* selection at the top, or down with it at the bottom, changes nothing.
C39_ReorderIsPermutation ==
    ("done" \in DOMAIN view /\ "list" \in DOMAIN view /\ view.done.op # "none") =>
        LET before == view.done.original
            sel == view.done.selected
        IN  /\ Len(view.list) = Len(before)
            /\ Drop(view.list, sel) = Drop(before, sel)
            /\ Keep(view.list, sel) = Keep(before, sel)
            /\ IF \/ view.done.op = "up" /\ before[1] \in sel
                  \/ view.done.op = "down" /\ before[Len(before)] \in sel
               THEN view.list = before
               ELSE Contiguous(view.list, sel)

\* C40: at most one requestAnimationFrame callback of the scroll listener is
\* pending at any time, also when renderVisibleSongs has been called directly
\* (by renderSongList or after a fetch) while such a callback was pending.
C40_OneFramePending == ("frames" \in DOMAIN vl) => vl.frames <= 1

=============================================================================
